---- MODULE Spec2Model ----
(***************************************************************************)
(* codex-sdk-rs: one Thread driving the external `codex exec` process.     *)
(*                                                                         *)
(* Three layers are modelled, as in the source:                            *)
(*   exec.rs    CodexExec::run      the lazy line stream (process driver)  *)
(*   thread.rs  run_streamed_internal   the event stream over the lines    *)
(*   thread.rs  Thread::run         the aggregation of events into a Turn  *)
(*                                                                         *)
(* Both streams are `try_stream!` generators: they run only while polled,  *)
(* are suspended at every `.await` and `yield`, and a `?` that fails       *)
(* yields the error and leaves the generator suspended until the next poll *)
(* (which ends the stream) or until the stream is dropped.  The external   *)
(* process and the spawned stderr task run on their own.                   *)
(***************************************************************************)
EXTENDS Integers, Sequences, FiniteSets, TLC

\* ----------------------------------------------------------------- bounds
\* stdout lines the process may write during one turn
MaxLines == 2
\* turns run one after the other on one Thread
MaxTurns == 2
\* nodes of a configuration tree, its root included
MaxNodes == 4
\* entries of the list of extra directories and of the list of images
MaxList == 2
\* items of a structured input
MaxItems == 4
\* stderr lines the process may write during one turn
MaxErrLines == 1
\* lines an OS pipe holds before the writer blocks
PipeCap == 2

\* ------------------------------------------------------------ option type
None == <<>>
Some(x) == <<x>>
IsSome(o) == o # <<>>
Unwrap(o) == o[1]
Opt(S) == {None} \cup {Some(x) : x \in S}
ListsUpTo(S, n) == UNION {[1..k -> S] : k \in 0..n}

\* a JSON field that is not present in the object
Absent == "<absent>"

\* ------------------------------------------------------- the wire protocol
\* One stdout line.  `json` is FALSE for text that is no JSON document (the
\* blank line); otherwise the line is a JSON object with the tag field `type`
\* and the payload fields of events.rs / items.rs (payload fields the
\* aggregation never reads are left out).
Line(json, type, thread_id, item_type, text, usage, message) ==
    [json |-> json, type |-> type, thread_id |-> thread_id,
     item_type |-> item_type, text |-> text, usage |-> usage,
     message |-> message]

BlankLine == Line(FALSE, Absent, Absent, Absent, Absent, None, Absent)
ThreadStartedLine(t) == Line(TRUE, "thread.started", t, Absent, Absent, None, Absent)
TurnStartedLine == Line(TRUE, "turn.started", Absent, Absent, Absent, None, Absent)
TurnCompletedLine(u) == Line(TRUE, "turn.completed", Absent, Absent, Absent, Some(u), Absent)
TurnFailedLine(m) == Line(TRUE, "turn.failed", Absent, Absent, Absent, None, m)
ItemLine(type, item_type, text) == Line(TRUE, type, Absent, item_type, text, None, Absent)
ErrorLine(m) == Line(TRUE, "error", Absent, Absent, Absent, None, m)
\* a tag of a later protocol version
UnknownTagLine == Line(TRUE, "thread.archived", "a", Absent, Absent, None, Absent)
\* a known tag whose required field is missing
MissingFieldLine == Line(TRUE, "thread.started", Absent, Absent, Absent, None, Absent)

\* serde tags of ThreadItem
ItemTypes ==
    {"agent_message", "reasoning", "command_execution", "file_change",
     "mcp_tool_call", "web_search", "todo_list", "error"}

\* A parsed ThreadEvent; kind "Invalid" stands for serde's Err.
Event(kind, thread_id, item_type, text, usage, message) ==
    [kind |-> kind, thread_id |-> thread_id, item_type |-> item_type,
     text |-> text, usage |-> usage, message |-> message]

InvalidEvent == Event("Invalid", Absent, Absent, Absent, None, Absent)

ParseItemEvent(kind, line) ==
    IF line.item_type \in ItemTypes /\ line.text # Absent
    THEN Event(kind, Absent, line.item_type, line.text, None, Absent)
    ELSE InvalidEvent

\* ParseEvent with a catch-all variant: a tag outside the schema parses to an
\* event nobody handles instead of failing
ParseEvent_CatchAllTag(line) ==
    IF ~line.json THEN InvalidEvent
    ELSE CASE line.type = "thread.started" ->
                IF line.thread_id # Absent
                THEN Event("ThreadStarted", line.thread_id, Absent, Absent, None, Absent)
                ELSE InvalidEvent
           [] line.type = "turn.started" ->
                Event("TurnStarted", Absent, Absent, Absent, None, Absent)
           [] line.type = "turn.completed" ->
                IF IsSome(line.usage)
                THEN Event("TurnCompleted", Absent, Absent, Absent, line.usage, Absent)
                ELSE InvalidEvent
           [] line.type = "turn.failed" ->
                IF line.message # Absent
                THEN Event("TurnFailed", Absent, Absent, Absent, None, line.message)
                ELSE InvalidEvent
           [] line.type = "item.started" -> ParseItemEvent("ItemStarted", line)
           [] line.type = "item.updated" -> ParseItemEvent("ItemUpdated", line)
           [] line.type = "item.completed" -> ParseItemEvent("ItemCompleted", line)
           [] line.type = "error" ->
                IF line.message # Absent
                THEN Event("ThreadErrorEvent", Absent, Absent, Absent, None, line.message)
                ELSE InvalidEvent
           [] OTHER -> Event("Unknown", Absent, Absent, Absent, None, Absent)

\* serde_json::from_str::<ThreadEvent>(&line)
ParseEvent(line) ==
    IF ~line.json THEN InvalidEvent
    ELSE CASE line.type = "thread.started" ->
                IF line.thread_id # Absent
                THEN Event("ThreadStarted", line.thread_id, Absent, Absent, None, Absent)
                ELSE InvalidEvent
           [] line.type = "turn.started" ->
                Event("TurnStarted", Absent, Absent, Absent, None, Absent)
           [] line.type = "turn.completed" ->
                IF IsSome(line.usage)
                THEN Event("TurnCompleted", Absent, Absent, Absent, line.usage, Absent)
                ELSE InvalidEvent
           [] line.type = "turn.failed" ->
                IF line.message # Absent
                THEN Event("TurnFailed", Absent, Absent, Absent, None, line.message)
                ELSE InvalidEvent
           [] line.type = "item.started" -> ParseItemEvent("ItemStarted", line)
           [] line.type = "item.updated" -> ParseItemEvent("ItemUpdated", line)
           [] line.type = "item.completed" -> ParseItemEvent("ItemCompleted", line)
           [] line.type = "error" ->
                IF line.message # Absent
                THEN Event("ThreadErrorEvent", Absent, Absent, Absent, None, line.message)
                ELSE InvalidEvent
           [] OTHER -> InvalidEvent

\* the ThreadItem carried by an item event
ItemOf(ev) == [type |-> ev.item_type, text |-> ev.text]

\* --------------------------------------------------------------- errors
\* CodexError values (error.rs); each variant keeps its own payload fields.
Aborted == [error |-> "Aborted"]
IoError == [error |-> "Io"]
InvalidOutputSchema == [error |-> "InvalidOutputSchema"]
InvalidEventError(line) == [error |-> "InvalidEvent", line |-> line]
ExecFailed(detail, stderr_text) ==
    [error |-> "ExecFailed", detail |-> detail, stderr |-> stderr_text]
TurnFailedError(message) == [error |-> "TurnFailed", message |-> message]

\* ---------------------------------------------------------- exit statuses
\* std::process::ExitStatus: code() is Some(n), or None when a signal ended
\* the process.
ExitCode(n) == [code |-> Some(n)]
BySignal == [code |-> None]
ExitStatuses == {ExitCode(0), ExitCode(1), BySignal}

\* status.success()
Success(st) == st.code = Some(0)

\* status.code().map(|code| format!("code {}", code)).unwrap_or("signal")
Detail(st) ==
    IF IsSome(st.code) THEN [text |-> "code", code |-> Unwrap(st.code)]
    ELSE [text |-> "signal"]

\* ExitOutcome testing `status.code().unwrap_or(0) != 0`: death by a signal
\* passes for a clean exit
ExitOutcome_SignalIsClean(st, buffer) ==
    IF IsSome(st.code) /\ st.code # Some(0)
    THEN Some(ExecFailed(Detail(st), buffer))
    ELSE None

\* the end of CodexExec::run once the status and the stderr buffer are known:
\* None for a clean end of the stream, Some(error) otherwise
ExitOutcome(st, buffer) ==
    IF ~Success(st) THEN Some(ExecFailed(Detail(st), buffer)) ELSE None

\* ------------------------------------------------------------ aggregation
\* AggregateEvent inserting each completed item at the front of the list
AggregateEvent_Prepend(agg, ev) ==
    CASE ev.kind = "ItemCompleted" ->
            [agg EXCEPT !.final_response =
                            IF ev.item_type = "agent_message" THEN ev.text ELSE @,
                        !.items = <<ItemOf(ev)>> \o @]
      [] ev.kind = "TurnCompleted" -> [agg EXCEPT !.usage = ev.usage]
      [] ev.kind = "TurnFailed" -> [agg EXCEPT !.turn_failure = Some(ev.message)]
      [] OTHER -> agg

\* AggregateEvent taking the text of every completed item as the response
AggregateEvent_AnyItemText(agg, ev) ==
    CASE ev.kind = "ItemCompleted" ->
            [agg EXCEPT !.final_response = ev.text,
                        !.items = Append(@, ItemOf(ev))]
      [] ev.kind = "TurnCompleted" -> [agg EXCEPT !.usage = ev.usage]
      [] ev.kind = "TurnFailed" -> [agg EXCEPT !.turn_failure = Some(ev.message)]
      [] OTHER -> agg

\* AggregateEvent with the error notification recorded as the turn's failure
AggregateEvent_ErrorFails(agg, ev) ==
    CASE ev.kind = "ItemCompleted" ->
            [agg EXCEPT !.final_response =
                            IF ev.item_type = "agent_message" THEN ev.text ELSE @,
                        !.items = Append(@, ItemOf(ev))]
      [] ev.kind = "TurnCompleted" -> [agg EXCEPT !.usage = ev.usage]
      [] ev.kind \in {"TurnFailed", "ThreadErrorEvent"} ->
            [agg EXCEPT !.turn_failure = Some(ev.message)]
      [] OTHER -> agg

\* one iteration of the `match event` of Thread::run over its four locals
AggregateEvent(agg, ev) ==
    CASE ev.kind = "ItemCompleted" ->
            [agg EXCEPT !.final_response =
                            IF ev.item_type = "agent_message" THEN ev.text ELSE @,
                        !.items = Append(@, ItemOf(ev))]
      [] ev.kind = "TurnCompleted" -> [agg EXCEPT !.usage = ev.usage]
      [] ev.kind = "TurnFailed" -> [agg EXCEPT !.turn_failure = Some(ev.message)]
      [] OTHER -> agg

\* StopsConsumption without the `break`: the loop goes on after TurnFailed
StopsConsumption_NoBreak(ev) == FALSE

\* the `break` of Thread::run
StopsConsumption(ev) == ev.kind = "TurnFailed"

\* what Thread::run returns after its loop
\* a return that takes a turn without TurnCompleted for a failed one
RunReturn_RequiresCompletion(agg) ==
    CASE IsSome(agg.turn_failure) ->
           [kind |-> "Err", err |-> TurnFailedError(Unwrap(agg.turn_failure))]
      [] ~IsSome(agg.usage) ->
           [kind |-> "Err", err |-> TurnFailedError("turn not completed")]
      [] OTHER ->
           [kind |-> "Turn", items |-> agg.items,
            final_response |-> agg.final_response, usage |-> agg.usage]

RunReturn(agg) ==
    IF IsSome(agg.turn_failure)
    THEN [kind |-> "Err", err |-> TurnFailedError(Unwrap(agg.turn_failure))]
    ELSE [kind |-> "Turn", items |-> agg.items,
          final_response |-> agg.final_response, usage |-> agg.usage]

\* `event?` replaced by leaving the loop: what was collected is returned
RunError_PartialTurn(err, agg) == RunReturn(agg)

\* `let event = event?;` in Thread::run: the error is returned as it is and
\* the locals are dropped
RunError(err, agg) == [kind |-> "Err", err |-> err]

\* SessionIdAfter with the cell emptied again by a TurnFailed event
SessionIdAfter_ClearedByFailure(cur, ev) ==
    CASE ev.kind = "ThreadStarted" -> Some(ev.thread_id)
      [] ev.kind = "TurnFailed" -> None
      [] OTHER -> cur

\* SessionIdAfter storing an id only while the cell is empty
SessionIdAfter_FirstOnly(cur, ev) ==
    IF ev.kind = "ThreadStarted" /\ cur = None THEN Some(ev.thread_id) ELSE cur

\* the session id cell after the event stream has seen `ev`
SessionIdAfter(cur, ev) ==
    IF ev.kind = "ThreadStarted" THEN Some(ev.thread_id) ELSE cur

\* PreSpawnAborted without the check
PreSpawnAborted_Unchecked(token) == FALSE

\* the pre-spawn check of the cancellation token
PreSpawnAborted(token) == token = "cancelled"

\* SchemaGuardAlive for a guard that is leaked instead of dropped
SchemaGuardAlive_Leaked(s) == TRUE

\* `_schema_guard` lives in the event stream's generator: it is alive while
\* the generator is, and is dropped when the generator returns or is dropped
SchemaGuardAlive(s) == s \in {"live", "failed"}

\* [String]::join(sep)
RECURSIVE JoinStrings(_, _)
JoinStrings(parts, sep) ==
    IF parts = <<>> THEN ""
    ELSE IF Len(parts) = 1 THEN parts[1]
    ELSE parts[1] \o sep \o JoinStrings(Tail(parts), sep)

\* ---------------------------------------------------------- the turn's input
\* Input (thread.rs): Text(String) or Structured(Vec<UserInput>)
TextInput(text) == [kind |-> "Text", text |-> text, items |-> <<>>]
StructuredInput(inputs) == [kind |-> "Structured", text |-> "", items |-> inputs]
\* UserInput: Text { text } or LocalImage { path }
UserText(text) == [kind |-> "Text", text |-> text]
LocalImage(path) == [kind |-> "LocalImage", path |-> path]

\* the separator of prompt_parts.join
PromptSeparator == "\n\n"

\* one iteration of the loop with the image's path pushed onto the prompt
\* parts as well
PushItem_ImageInPrompt(acc, item) ==
    IF item.kind = "Text"
    THEN [acc EXCEPT !.prompt_parts = Append(@, item.text)]
    ELSE [acc EXCEPT !.prompt_parts = Append(@, item.path),
                     !.images = Append(@, item.path)]

\* one iteration of `for item in items` over prompt_parts and images
PushItem(acc, item) ==
    IF item.kind = "Text"
    THEN [acc EXCEPT !.prompt_parts = Append(@, item.text)]
    ELSE [acc EXCEPT !.images = Append(@, item.path)]

RECURSIVE PushItems(_, _, _)
PushItems(acc, inputs, i) ==
    IF i > Len(inputs) THEN acc
    ELSE PushItems(PushItem(acc, inputs[i]), inputs, i + 1)

\* Thread::normalize_input: (prompt, images)
normalize_input(given) ==
    IF given.kind = "Text" THEN [prompt |-> given.text, images |-> <<>>]
    ELSE LET acc == PushItems([prompt_parts |-> <<>>, images |-> <<>>],
                              given.items, 1)
         IN  [prompt |-> JoinStrings(acc.prompt_parts, PromptSeparator),
              images |-> acc.images]

\* ------------------------------------------- the configuration override tree
\* A serde_json::Value.  `b` is the payload of a Bool, `s` of a String or of
\* a Number (its numeric text; a serde_json::Number holds finite values
\* only), `kids` the members of an Object in the order the map iterates them
\* or the elements of an Array (whose `k` is unused).
JsonValue(t, b, s, kids) == [t |-> t, b |-> b, s |-> s, kids |-> kids]
JNull == JsonValue("null", FALSE, "", <<>>)
JBool(b) == JsonValue("bool", b, "", <<>>)
JString(s) == JsonValue("str", FALSE, s, <<>>)
JNumber(s) == JsonValue("num", FALSE, s, <<>>)
JArray(values) == JsonValue("arr", FALSE, "", values)
JObject(members) == JsonValue("obj", FALSE, "", members)
Member(k, v) == [k |-> k, v |-> v]
Element(v) == [k |-> "", v |-> v]

\* errors of the serializer
InvalidConfigRoot == [error |-> "InvalidConfigRoot"]
InvalidConfigKey == [error |-> "InvalidConfigKey"]
InvalidConfigNull(path) == [error |-> "InvalidConfigNull", null_path |-> path]

\* Result<String, CodexError> and Result<Vec<String>, CodexError>
Rendered(text) == [ok |-> TRUE, text |-> text, parts |-> <<>>, err |-> <<>>]
Collected(parts) == [ok |-> TRUE, text |-> "", parts |-> parts, err |-> <<>>]
Failed(err) == [ok |-> FALSE, text |-> "", parts |-> <<>>, err |-> <<err>>]

\* serde_json::to_string of a string without characters to escape
Quote(s) == "\"" \o s \o "\""

BareChars ==
    {"a", "b", "c", "d", "e", "f", "g", "h", "i", "j", "k", "l", "m", "n", "o",
     "p", "q", "r", "s", "t", "u", "v", "w", "x", "y", "z", "0", "1", "2", "3",
     "4", "5", "6", "7", "8", "9", "_", "-"}

format_toml_key(key) ==
    LET is_bare == \A i \in 1..Len(key) : SubSeq(key, i, i) \in BareChars
    IN  IF is_bare THEN key ELSE Quote(key)

\* key.is_empty() without the check
KeyIsEmpty_Unchecked(key) == FALSE

\* key.is_empty()
KeyIsEmpty(key) == key = ""

\* child.is_null() without the check
IsNull_Unchecked(child) == FALSE

\* child.is_null()
IsNull(child) == child.t = "null"

RECURSIVE to_toml_value(_, _)
RECURSIVE RenderElements(_, _, _)
RECURSIVE RenderMembers(_, _, _)
RECURSIVE flatten_config_overrides(_, _)
RECURSIVE FlattenMembers(_, _, _)

\* the loop over the elements of an array, from element i on; the first
\* failure is returned
RenderElements(values, path, i) ==
    IF i > Len(values) THEN Collected(<<>>)
    ELSE LET r == to_toml_value(values[i].v,
                                path \o "[" \o ToString(i - 1) \o "]")
         IN  IF ~r.ok THEN r
             ELSE LET rest == RenderElements(values, path, i + 1)
                  IN  IF ~rest.ok THEN rest
                      ELSE Collected(<<r.text>> \o rest.parts)

\* the loop over the members of an object used as a value, from member i on
RenderMembers(map, path, i) ==
    IF i > Len(map) THEN Collected(<<>>)
    ELSE IF KeyIsEmpty(map[i].k) THEN Failed(InvalidConfigKey)
    ELSE IF IsNull(map[i].v) THEN RenderMembers(map, path, i + 1)
    ELSE LET r == to_toml_value(map[i].v, path \o "." \o map[i].k)
         IN  IF ~r.ok THEN r
             ELSE LET rest == RenderMembers(map, path, i + 1)
                  IN  IF ~rest.ok THEN rest
                      ELSE Collected(<<format_toml_key(map[i].k) \o " = " \o r.text>>
                                     \o rest.parts)

to_toml_value(value, path) ==
    CASE value.t = "str" -> Rendered(Quote(value.s))
      [] value.t = "num" -> Rendered(value.s)
      [] value.t = "bool" -> Rendered(IF value.b THEN "true" ELSE "false")
      [] value.t = "arr" ->
           LET r == RenderElements(value.kids, path, 1)
           IN  IF r.ok THEN Rendered("[" \o JoinStrings(r.parts, ", ") \o "]") ELSE r
      [] value.t = "obj" ->
           LET r == RenderMembers(value.kids, path, 1)
           IN  IF r.ok THEN Rendered("{" \o JoinStrings(r.parts, ", ") \o "}") ELSE r
      [] OTHER -> Failed(InvalidConfigNull(path))

\* an empty object that emits nothing wherever it stands
EmptyObjectEntries_Dropped(prefix) == <<>>

\* what an empty object emits: nothing at the root, `path={}` elsewhere
EmptyObjectEntries(prefix) ==
    IF prefix = "" THEN <<>> ELSE <<prefix \o "={}">>

\* a child's path that forgets the path of its parent
ChildPath_KeyOnly(prefix, key) == key

\* the path of the member `key` of the object at `prefix`
ChildPath(prefix, key) == IF prefix = "" THEN key ELSE prefix \o "." \o key

\* the loop over the members of a path object, from member i on
FlattenMembers(object, prefix, i) ==
    IF i > Len(object) THEN Collected(<<>>)
    ELSE IF KeyIsEmpty(object[i].k) THEN Failed(InvalidConfigKey)
    ELSE IF IsNull(object[i].v) THEN FlattenMembers(object, prefix, i + 1)
    ELSE LET key == object[i].k
             child == object[i].v
             path == ChildPath(prefix, key)
             r == IF child.t = "obj"
                  THEN flatten_config_overrides(child, path)
                  ELSE LET lit == to_toml_value(child, path)
                       IN  IF lit.ok THEN Collected(<<path \o "=" \o lit.text>>)
                           ELSE lit
         IN  IF ~r.ok THEN r
             ELSE LET rest == FlattenMembers(object, prefix, i + 1)
                  IN  IF ~rest.ok THEN rest
                      ELSE Collected(r.parts \o rest.parts)

flatten_config_overrides(value, prefix) ==
    IF value.t # "obj"
    THEN IF prefix = "" THEN Failed(InvalidConfigRoot)
         ELSE LET lit == to_toml_value(value, prefix)
              IN  IF lit.ok THEN Collected(<<prefix \o "=" \o lit.text>>) ELSE lit
    ELSE IF value.kids = <<>> THEN Collected(EmptyObjectEntries(prefix))
    ELSE FlattenMembers(value.kids, prefix, 1)

serialize_config_overrides(config) == flatten_config_overrides(config, "")

\* ------------------------------------------------------- the command builder
\* as_str of the option enums (thread_options.rs)
SandboxModes == {"ReadOnly", "WorkspaceWrite", "DangerFullAccess"}
SandboxModeStr(m) ==
    CASE m = "ReadOnly" -> "read-only"
      [] m = "WorkspaceWrite" -> "workspace-write"
      [] m = "DangerFullAccess" -> "danger-full-access"

ModelReasoningEfforts == {"Minimal", "Low", "Medium", "High", "XHigh"}
ModelReasoningEffortStr(e) ==
    CASE e = "Minimal" -> "minimal"
      [] e = "Low" -> "low"
      [] e = "Medium" -> "medium"
      [] e = "High" -> "high"
      [] e = "XHigh" -> "xhigh"

WebSearchModes == {"Disabled", "Cached", "Live"}
WebSearchModeStr(m) ==
    CASE m = "Disabled" -> "disabled"
      [] m = "Cached" -> "cached"
      [] m = "Live" -> "live"

ApprovalModes == {"Never", "OnRequest", "OnFailure", "Untrusted"}
ApprovalModeStr(p) ==
    CASE p = "Never" -> "never"
      [] p = "OnRequest" -> "on-request"
      [] p = "OnFailure" -> "on-failure"
      [] p = "Untrusted" -> "untrusted"

\* CodexExecArgs::default(), with the fields build_command and build_env read
NoArgs ==
    [input |-> "", base_url |-> None, api_key |-> None, thread_id |-> None, images |-> None,
     model |-> None, sandbox_mode |-> None, working_directory |-> None,
     additional_directories |-> None, skip_git_repo_check |-> None,
     output_schema_file |-> None, model_reasoning_effort |-> None,
     network_access_enabled |-> None, web_search_mode |-> None,
     web_search_enabled |-> None, approval_policy |-> None]

\* the static configuration of a CodexExec
CodexExec(config_overrides, env_override) ==
    [config_overrides |-> config_overrides, env_override |-> env_override]

\* one `flag value` pair per value, in the order of the values
RECURSIVE Repeated(_, _)
Repeated(flag, values) ==
    IF values = <<>> THEN <<>>
    ELSE <<flag, Head(values)>> \o Repeated(flag, Tail(values))

\* `if let Some(v) = opt { push(flag); push(v) }`
Optional(flag, opt) == IF IsSome(opt) THEN <<flag, Unwrap(opt)>> ELSE <<>>

ConfigTokens(overrides) == Repeated("--config", overrides)
ModelTokens(args) == Optional("--model", args.model)
SandboxTokens(args) ==
    IF IsSome(args.sandbox_mode)
    THEN <<"--sandbox", SandboxModeStr(Unwrap(args.sandbox_mode))>>
    ELSE <<>>
CdTokens(args) == Optional("--cd", args.working_directory)
AddDirTokens(args) ==
    IF IsSome(args.additional_directories)
    THEN Repeated("--add-dir", Unwrap(args.additional_directories))
    ELSE <<>>
\* skip_git_repo_check.unwrap_or(false)
SkipGitTokens(args) ==
    IF IsSome(args.skip_git_repo_check) /\ Unwrap(args.skip_git_repo_check)
    THEN <<"--skip-git-repo-check">>
    ELSE <<>>
OutputSchemaTokens(args) == Optional("--output-schema", args.output_schema_file)
EffortEntry(e) == "model_reasoning_effort=" \o Quote(ModelReasoningEffortStr(e))
EffortTokens(args) ==
    IF IsSome(args.model_reasoning_effort)
    THEN <<"--config", EffortEntry(Unwrap(args.model_reasoning_effort))>>
    ELSE <<>>
NetworkEntry(on) ==
    "sandbox_workspace_write.network_access=" \o (IF on THEN "true" ELSE "false")
NetworkTokens(args) ==
    IF IsSome(args.network_access_enabled)
    THEN <<"--config", NetworkEntry(Unwrap(args.network_access_enabled))>>
    ELSE <<>>
WebSearchEntry(value) == "web_search=" \o Quote(value)

\* the boolean toggle consulted before the explicit mode
WebSearchTokens_ToggleFirst(args) ==
    IF IsSome(args.web_search_enabled)
    THEN <<"--config",
           WebSearchEntry(IF Unwrap(args.web_search_enabled) THEN "live"
                          ELSE "disabled")>>
    ELSE IF IsSome(args.web_search_mode)
    THEN <<"--config", WebSearchEntry(WebSearchModeStr(Unwrap(args.web_search_mode)))>>
    ELSE <<>>

WebSearchTokens(args) ==
    IF IsSome(args.web_search_mode)
    THEN <<"--config", WebSearchEntry(WebSearchModeStr(Unwrap(args.web_search_mode)))>>
    ELSE IF IsSome(args.web_search_enabled)
    THEN <<"--config",
           WebSearchEntry(IF Unwrap(args.web_search_enabled) THEN "live"
                          ELSE "disabled")>>
    ELSE <<>>
ApprovalEntry(p) == "approval_policy=" \o Quote(ApprovalModeStr(p))
ApprovalTokens(args) ==
    IF IsSome(args.approval_policy)
    THEN <<"--config", ApprovalEntry(Unwrap(args.approval_policy))>>
    ELSE <<>>

\* a build that never resumes
ResumeTokens_Dropped(args) == <<>>

ResumeTokens(args) == Optional("resume", args.thread_id)
ImageTokens(args) ==
    IF IsSome(args.images) THEN Repeated("--image", Unwrap(args.images)) ELSE <<>>

\* the pushes of build_command with the images pushed before `resume`
CommandArgs_ImagesFirst(overrides, args) ==
    <<"exec", "--experimental-json">> \o ConfigTokens(overrides)
      \o ModelTokens(args) \o SandboxTokens(args) \o CdTokens(args)
      \o AddDirTokens(args) \o SkipGitTokens(args) \o OutputSchemaTokens(args)
      \o EffortTokens(args) \o NetworkTokens(args) \o WebSearchTokens(args)
      \o ApprovalTokens(args) \o ImageTokens(args) \o ResumeTokens(args)

\* the pushes of build_command with the request's config pairs pushed next
\* to those of the configuration tree
CommandArgs_ConfigTogether(overrides, args) ==
    <<"exec", "--experimental-json">> \o ConfigTokens(overrides)
      \o EffortTokens(args) \o NetworkTokens(args) \o WebSearchTokens(args)
      \o ApprovalTokens(args)
      \o ModelTokens(args) \o SandboxTokens(args) \o CdTokens(args)
      \o AddDirTokens(args) \o SkipGitTokens(args) \o OutputSchemaTokens(args)
      \o ResumeTokens(args) \o ImageTokens(args)

\* the pushes onto command_args, in the order of the code
CommandArgs(overrides, args) ==
    <<"exec", "--experimental-json">> \o ConfigTokens(overrides)
      \o ModelTokens(args) \o SandboxTokens(args) \o CdTokens(args)
      \o AddDirTokens(args) \o SkipGitTokens(args) \o OutputSchemaTokens(args)
      \o EffortTokens(args) \o NetworkTokens(args) \o WebSearchTokens(args)
      \o ApprovalTokens(args) \o ResumeTokens(args) \o ImageTokens(args)

\* a HashMap<String, String> is a function from its keys to their values
EmptyEnv == <<>>
Insert(env, key, value) ==
    [k \in DOMAIN env \cup {key} |-> IF k = key THEN value ELSE env[k]]
\* entry(key).or_insert_with(value) replaced by insert(key, value)
OrInsert_Overwrite(env, key, value) == Insert(env, key, value)

\* entry(key).or_insert_with(value)
OrInsert(env, key, value) ==
    IF key \in DOMAIN env THEN env ELSE Insert(env, key, value)

INTERNAL_ORIGINATOR_ENV == "CODEX_INTERNAL_ORIGINATOR_OVERRIDE"
RUST_SDK_ORIGINATOR == "codex_sdk_rs"

\* `inherited` is what env::vars() returns at the time of the call
build_env(exec, args, inherited) ==
    LET base == IF IsSome(exec.env_override) THEN Unwrap(exec.env_override)
                ELSE inherited
        e1 == OrInsert(base, INTERNAL_ORIGINATOR_ENV, RUST_SDK_ORIGINATOR)
        e2 == OrInsert(e1, "CI", "true")
        e3 == OrInsert(e2, "TERM", "xterm")
        e4 == IF IsSome(args.base_url)
              THEN Insert(e3, "OPENAI_BASE_URL", Unwrap(args.base_url)) ELSE e3
    IN  IF IsSome(args.api_key)
        THEN Insert(e4, "CODEX_API_KEY", Unwrap(args.api_key)) ELSE e4

\* Result<CommandSpec, CodexError>
CommandSpec(args, env) == [ok |-> TRUE, args |-> args, env |-> env, err |-> None]
CommandError(err) == [ok |-> FALSE, args |-> <<>>, env |-> EmptyEnv, err |-> err]

build_command(exec, args, inherited) ==
    LET overrides == IF IsSome(exec.config_overrides)
                     THEN serialize_config_overrides(Unwrap(exec.config_overrides))
                     ELSE Collected(<<>>)
    IN  IF ~overrides.ok THEN CommandError(overrides.err)
        ELSE CommandSpec(CommandArgs(overrides.parts, args),
                         build_env(exec, args, inherited))

\* ------------------------------------------------------------------ inputs
\* ids a `thread.started` event may carry, and the id given to resume_thread
ThreadIds == {"a", "b"}
ResumeIds == {"r"}

\* the lines the process may write to stdout while run_streamed is followed
StdoutLines ==
    {ThreadStartedLine(t) : t \in ThreadIds}
    \cup {TurnCompletedLine(7), UnknownTagLine, BlankLine}

\* the lines the process may write to stdout while Thread::run is followed
RunLines ==
    {ThreadStartedLine("a"),
     ItemLine("item.completed", "agent_message", "hello"),
     ItemLine("item.completed", "agent_message", "bye"),
     ItemLine("item.completed", "reasoning", "think"),
     ItemLine("item.started", "agent_message", "draft"),
     TurnCompletedLine(7), TurnFailedLine("boom"), BlankLine}

\* the lines the process may write to stdout while successive turns are
\* followed
TurnLines == {ThreadStartedLine(t) : t \in ThreadIds} \cup {TurnCompletedLine(7)}

\* the lines the process may write to stdout while the events Thread::run
\* merely observes are followed
ObservedLines ==
    {TurnStartedLine, ItemLine("item.started", "agent_message", "draft"),
     ItemLine("item.updated", "agent_message", "more"), ErrorLine("oops")}
EventLines ==
    ObservedLines
    \cup {ItemLine("item.completed", "agent_message", "hello"), TurnCompletedLine(7)}

\* the lines the process may write to stderr
StderrLines == {"warn"}

\* the environment this process inherited
InheritedEnv == [PATH |-> "/usr/bin"]

\* the base mappings of build_env: every mapping of some of these keys
EnvKeys ==
    {INTERNAL_ORIGINATOR_ENV, "CI", "TERM", "OPENAI_BASE_URL", "CODEX_API_KEY",
     "PATH"}
BaseEnvs == UNION {[keys -> {"base"}] : keys \in SUBSET EnvKeys}

\* the requests whose base URL and API key are set or not
EnvArgs ==
    {[NoArgs EXCEPT !.base_url = base_url, !.api_key = api_key] :
        base_url \in Opt({"url"}), api_key \in Opt({"key"})}

\* the inputs given to a turn: a plain text, or a structured input of at most
\* MaxItems text segments and images
InputItems ==
    {UserText("a"), UserText("b"), UserText(""), LocalImage("p"), LocalImage("q")}
Inputs ==
    {TextInput(""), TextInput("hi")}
    \cup {StructuredInput(inputs) : inputs \in ListsUpTo(InputItems, MaxItems)}

\* the path of the schema artifact (OutputSchemaFile::schema_path)
SchemaPath == "schema.json"

\* the configuration trees given to Codex::new: every tree of at most
\* MaxNodes nodes over these keys and leaves; the members of an object have
\* distinct keys, in any iteration order
ConfigKeys == {"a", "web_search", ""}
ConfigLeaves == {JNull, JBool(TRUE), JString("x")}

\* The trees of exactly n nodes, given those of fewer nodes: `smaller[j]`
\* holds the trees of j nodes and the element lists and member lists of
\* j - 1 nodes in all, which fill an array or an object of j nodes.
TreesOfSize(smaller, n) ==
    LET elements == IF n = 1 THEN {<<>>}
                    ELSE UNION {{<<Element(v)>> \o es :
                                    v \in smaller[j].values,
                                    es \in smaller[n - j].elements} :
                                j \in 1..(n - 1)}
        members == IF n = 1 THEN {<<>>}
                   ELSE UNION {{<<Member(k, v)>> \o ms :
                                   v \in smaller[j].values,
                                   ms \in {m \in smaller[n - j].members :
                                              \A i \in DOMAIN m : m[i].k # k}} :
                               j \in 1..(n - 1), k \in ConfigKeys}
    IN  [values |-> IF n = 1
                    THEN ConfigLeaves \cup {JArray(<<>>), JObject(<<>>)}
                    ELSE {JArray(es) : es \in elements}
                         \cup {JObject(ms) : ms \in members},
         elements |-> elements, members |-> members]

RECURSIVE TreesUpTo(_)
TreesUpTo(n) ==
    IF n = 0 THEN <<>>
    ELSE LET smaller == TreesUpTo(n - 1)
         IN  Append(smaller, TreesOfSize(smaller, n))

ConfigTrees(nodes) ==
    LET trees == TreesUpTo(nodes) IN UNION {trees[n].values : n \in 1..nodes}

\* the requests given to build_command

\* every combination of the settings, with no list or a list of two
SettingArgs ==
    {[NoArgs EXCEPT !.thread_id = thread_id, !.images = images, !.model = model,
                    !.sandbox_mode = sandbox_mode,
                    !.working_directory = working_directory,
                    !.additional_directories = additional_directories,
                    !.skip_git_repo_check = skip_git_repo_check,
                    !.output_schema_file = output_schema_file,
                    !.model_reasoning_effort = model_reasoning_effort,
                    !.network_access_enabled = network_access_enabled,
                    !.web_search_mode = web_search_mode,
                    !.web_search_enabled = web_search_enabled,
                    !.approval_policy = approval_policy] :
        thread_id \in Opt({"t"}),
        images \in {None, Some(<<"i1", "i2">>)},
        model \in Opt({"gpt"}),
        sandbox_mode \in Opt({"ReadOnly"}),
        working_directory \in Opt({"/w"}),
        additional_directories \in {None, Some(<<"d1", "d2">>)},
        skip_git_repo_check \in Opt(BOOLEAN),
        output_schema_file \in Opt({SchemaPath}),
        model_reasoning_effort \in Opt({"High"}),
        network_access_enabled \in Opt(BOOLEAN),
        web_search_mode \in Opt({"Cached", "Disabled"}),
        web_search_enabled \in Opt(BOOLEAN),
        approval_policy \in Opt({"OnRequest"})}

\* every list of directories and of images, with all or none of the settings
ListArgs ==
    {[NoArgs EXCEPT !.thread_id = thread_id, !.images = images, !.model = model,
                    !.sandbox_mode = IF IsSome(model) THEN Some("WorkspaceWrite")
                                     ELSE None,
                    !.working_directory = model,
                    !.additional_directories = additional_directories,
                    !.skip_git_repo_check = IF IsSome(model) THEN Some(TRUE) ELSE None,
                    !.output_schema_file = model,
                    !.approval_policy = IF IsSome(model) THEN Some("Never")
                                        ELSE None] :
        thread_id \in Opt({"t"}),
        images \in Opt(ListsUpTo({"i1", "i2"}, MaxList)),
        model \in Opt({"gpt"}),
        additional_directories \in Opt(ListsUpTo({"d1", "d2"}, MaxList))}

RequestArgs == SettingArgs \cup ListArgs

\* the configuration trees that accompany the requests
RequestConfigs ==
    {None, Some(JObject(<<Member("a", JBool(TRUE))>>)),
     Some(JObject(<<Member("web_search", JString("cached")),
                    Member("a", JObject(<<>>))>>))}

\* ------------------------------------------------------------------- state
VARIABLES
    id,             \* Thread.id: the shared session id cell (Option)
    mode,           \* the operation followed: "run" | "streamed"
    output_schema,  \* turn_options.output_schema: "none" | "object" | "scalar"
    exec,           \* the CodexExec: config_overrides, env_override
    process_env,    \* the environment of this process (env::vars())
    input,          \* the Input given to the call
    normalized,     \* what normalize_input returned (Option)
    exec_args,      \* the CodexExecArgs of the turn or of the build_command call
    command,        \* what build_command returned (Option)
    turn,           \* the number of the turn on this Thread
    learned,        \* the id of the last ThreadStarted of the earlier turns (Option)
    peer,           \* the event stream of a concurrent turn on a clone of the Thread
    peer_events,    \* every event the concurrent turn's stream yielded, in order
    peer_args,      \* the CodexExecArgs of the concurrent turn
    started,        \* the ids of the ThreadStarted events processed, in order
    cancel,         \* turn_options.cancel: "none" | "armed" | "cancelled"
    signaled_at,    \* where the line stream stood when the token was signalled
    schema_file,    \* whether the schema artifact exists on the filesystem
    result,         \* what the called operation returned
    pc,             \* position of the line stream's generator (CodexExec::run)
    stream,         \* state of the event stream's generator
    outcome,        \* how the event stream terminated: an error item, or its end
    line_err,       \* the error item the line stream yielded (Option)
    child,          \* the OS process: "none" | "running" | "exited"
    proc_status,    \* the ExitStatus the OS holds for the exited process (Option)
    stdout_open,    \* whether the process still holds stdout's write end
    stdout_pipe,    \* lines written to stdout and not yet read
    stderr_pipe,    \* lines written to stderr and not yet read
    written,        \* every line the process wrote to stdout, in order
    err_written,    \* every line the process wrote to stderr, in order
    child_stdin,    \* what the driver wrote to the child's stdin, and whether it shut it
    spawns,         \* how many processes spawn_codex created
    spawned_with,   \* the CommandSpec given to spawn_codex (Option)
    killed,         \* the driver called child.kill()
    awaited,        \* the driver obtained the exit status (try_wait / wait / kill)
    joined,         \* the driver awaited the JoinHandle of the capture_stderr task
    stderr_task,    \* the capture_stderr task: "none" | "running" | "finished"
    stderr_buffer,  \* the buffer of the capture_stderr task
    exit_status,    \* the read loop's `exit_status` (Option)
    status,         \* the `status` after the loop (Option)
    yielded,        \* every line the line stream yielded, in order
    events,         \* every event the event stream yielded, in order
    items,          \* Thread::run: items
    final_response, \* Thread::run: final_response
    usage,          \* Thread::run: usage (Option)
    turn_failure    \* Thread::run: turn_failure (Option of the message)

callVars == <<exec, process_env, input, turn, learned, peer, peer_events, peer_args>>
turnVars ==
    <<mode, output_schema, normalized, exec_args, command, cancel, signaled_at,
      callVars>>
procVars ==
    <<child, proc_status, stdout_open, stdout_pipe, stderr_pipe, written,
      err_written, child_stdin>>
taskVars == <<stderr_task, stderr_buffer>>
driverVars ==
    <<spawns, spawned_with, killed, awaited, joined, exit_status, status>>
streamVars ==
    <<pc, stream, outcome, line_err, schema_file, yielded, events, started, result>>
aggVars == <<items, final_response, usage, turn_failure>>
vars == <<id, turnVars, procVars, taskVars, driverVars, streamVars, aggVars>>

NoResult == [kind |-> "none"]
\* child.stdin before anything is written to it
NoStdin == [data |-> "", shutdown |-> FALSE]
NoOutcome == [kind |-> "none"]

\* the state between two calls: no turn, no stream, no process
Idle ==
    /\ peer = "none"
    /\ peer_events = <<>>
    /\ peer_args = NoArgs
    /\ started = <<>>
    /\ normalized = None
    /\ command = None
    /\ signaled_at = "never"
    /\ schema_file = FALSE
    /\ line_err = None
    /\ result = NoResult
    /\ pc = "none"
    /\ stream = "none"
    /\ outcome = NoOutcome
    /\ child = "none"
    /\ proc_status = None
    /\ stdout_open = FALSE
    /\ stdout_pipe = <<>>
    /\ stderr_pipe = <<>>
    /\ written = <<>>
    /\ err_written = <<>>
    /\ child_stdin = NoStdin
    /\ spawns = 0
    /\ spawned_with = None
    /\ killed = FALSE
    /\ awaited = FALSE
    /\ joined = FALSE
    /\ stderr_task = "none"
    /\ stderr_buffer = <<>>
    /\ exit_status = None
    /\ status = None
    /\ yielded = <<>>
    /\ events = <<>>
    /\ items = <<>>
    /\ final_response = ""
    /\ usage = None
    /\ turn_failure = None

\* Codex::start_thread / Codex::resume_thread, then Thread::new; `modes` and
\* `schemas` are the calls that may follow.
InitWith(modes, schemas) ==
    /\ id \in {None} \cup {Some(r) : r \in ResumeIds}
    /\ mode \in modes
    /\ output_schema \in schemas
    /\ exec = CodexExec(None, None)
    /\ process_env = InheritedEnv
    /\ input = TextInput("hi")
    /\ cancel \in {"none", "armed"}
    /\ turn = 1
    /\ learned = None
    /\ exec_args = NoArgs
    /\ Idle

\* ------------------------------------------------------- starting the turn
\* Thread::run / Thread::run_streamed up to the creation of the lazy event
\* stream: the schema artifact is written (OutputSchemaFile::new fails for a
\* schema that is no JSON object), the session id is read into the exec
\* args, and nothing is spawned.
run_streamed_internal ==
    /\ IF output_schema = "scalar"
       THEN /\ result' = [kind |-> "Err", err |-> InvalidOutputSchema]
            /\ UNCHANGED <<normalized, exec_args, command, schema_file, pc, stream>>
       ELSE LET given == normalize_input(input)
                args == [NoArgs EXCEPT
                           !.input = given.prompt,
                           !.thread_id = id,
                           !.images = IF given.images = <<>> THEN None
                                      ELSE Some(given.images),
                           !.output_schema_file =
                               IF output_schema = "object" THEN Some(SchemaPath)
                               ELSE None]
                spec == build_command(exec, args, process_env)
            IN  /\ normalized' = Some(given)
                /\ exec_args' = args
                /\ command' = Some(spec)
                /\ IF spec.ok
                   THEN /\ schema_file' = (output_schema = "object"
                                           /\ SchemaGuardAlive("live"))
                        /\ pc' = "unpolled"
                        /\ stream' = "live"
                        /\ result' = IF mode = "streamed" THEN [kind |-> "Stream"]
                                      ELSE NoResult
                   ELSE /\ result' = [kind |-> "Err", err |-> Unwrap(spec.err)]
                        /\ UNCHANGED <<schema_file, pc, stream>>
    /\ UNCHANGED <<id, mode, output_schema, cancel, signaled_at, callVars, procVars,
                   taskVars, driverVars, aggVars, outcome, line_err, yielded, events,
                   started>>

\* a call that is repeated when the turn has failed
StartTurn_Retry ==
    /\ \/ pc = "none" /\ result = NoResult
       \/ result.kind = "Err"
    /\ run_streamed_internal

\* the caller calls Thread::run or Thread::run_streamed on the idle Thread
StartTurn ==
    /\ pc = "none" /\ result = NoResult
    /\ run_streamed_internal

\* Phase A of the read loop: no exit status recorded yet
PhaseA == exit_status = None

\* the holder of the token signals it
Cancel ==
    /\ cancel = "armed"
    /\ stream = "live"
    /\ cancel' = "cancelled"
    /\ signaled_at' = CASE pc = "loop" /\ PhaseA -> "phase A"
                        [] pc = "loop" /\ ~PhaseA -> "phase B"
                        [] OTHER -> pc
    /\ UNCHANGED <<id, mode, output_schema, normalized, exec_args, command, callVars,
                   procVars, taskVars, driverVars, streamVars, aggVars>>

\* ------------------------------------------- what a poll hands to the caller
\* One poll of the event stream drives the line stream to its next item:
\* a line, an error, or its end.  `Forward` is everything that follows in the
\* same poll: the event stream parses the line, stores a session id and
\* yields the event (or the error); in aggregated mode Thread::run then folds
\* the event into its locals and, on an error, on TurnFailed or at the end of
\* the stream, returns, which drops the stream.  `pc2` is where the line
\* stream's generator is left suspended.
LineItem(line) == [t |-> "line", line |-> line]
ErrItem(err) == [t |-> "err", err |-> err]
EndItem == [t |-> "end"]

Agg ==
    [items |-> items, final_response |-> final_response, usage |-> usage,
     turn_failure |-> turn_failure]

Forward(pc2, item) ==
    LET ev == IF item.t = "line" THEN ParseEvent(item.line) ELSE InvalidEvent
        delivered == item.t = "line" /\ ev.kind # "Invalid"
        err == CASE item.t = "err" -> Some(item.err)
                 [] item.t = "line" /\ ~delivered -> Some(InvalidEventError(item.line))
                 [] OTHER -> None
        ended == item.t = "end"
        agg == IF delivered /\ mode = "run" THEN AggregateEvent(Agg, ev) ELSE Agg
        returns == mode = "run"
                   /\ (IsSome(err) \/ ended \/ (delivered /\ StopsConsumption(ev)))
        stream2 == CASE ended -> "ended"
                     [] returns -> "dropped"
                     [] IsSome(err) -> "failed"
                     [] OTHER -> "live"
    IN  /\ yielded' = IF item.t = "line" THEN Append(yielded, item.line) ELSE yielded
        /\ events' = IF delivered THEN Append(events, ev) ELSE events
        /\ id' = IF delivered THEN SessionIdAfter(id, ev) ELSE id
        /\ started' = IF delivered /\ ev.kind = "ThreadStarted"
                      THEN Append(started, ev.thread_id) ELSE started
        /\ line_err' = IF item.t = "err" THEN Some(item.err) ELSE line_err
        /\ outcome' = CASE IsSome(err) -> [kind |-> "err", err |-> Unwrap(err)]
                        [] ended -> [kind |-> "end"]
                        [] OTHER -> outcome
        /\ stream' = stream2
        /\ pc' = IF stream2 = "dropped" THEN "dropped" ELSE pc2
        /\ schema_file' = (schema_file /\ SchemaGuardAlive(stream2))
        /\ items' = agg.items
        /\ final_response' = agg.final_response
        /\ usage' = agg.usage
        /\ turn_failure' = agg.turn_failure
        /\ result' = CASE returns /\ IsSome(err) -> RunError(Unwrap(err), agg)
                       [] returns /\ ~IsSome(err) -> RunReturn(agg)
                       [] OTHER -> result

\* a poll that ends pending: the line stream is suspended at an `.await`
Suspend(pc2) ==
    /\ pc' = pc2
    /\ UNCHANGED <<id, stream, outcome, line_err, schema_file, yielded, events,
                   started, result, aggVars>>

\* ------------------------------------------------- CodexExec::run, by steps
\* a generator that builds its command when it is first polled
SpawnedCommand_BuiltAtPoll ==
    build_command(exec, [exec_args EXCEPT !.thread_id = id], process_env)

\* the CommandSpec the generator owns: CodexExec::run built it before the
\* generator was created and moved it in
SpawnedCommand == Unwrap(command)

\* First poll: the pre-spawn cancellation check, then spawn_codex.  The
\* generator is next suspended in the write to the child's stdin.
PollFirst ==
    /\ pc = "unpolled" /\ stream = "live"
    /\ IF PreSpawnAborted(cancel)
       THEN /\ Forward("failed", ErrItem(Aborted))
            /\ UNCHANGED <<procVars, driverVars>>
       ELSE \E ok \in BOOLEAN :
              IF ok
              THEN /\ child' = "running"
                   /\ stdout_open' = TRUE
                   /\ spawns' = spawns + 1
                   /\ spawned_with' = Some(SpawnedCommand)
                   /\ Suspend("stdin")
                   /\ UNCHANGED <<proc_status, stdout_pipe, stderr_pipe, written,
                                  err_written, child_stdin, killed, awaited, joined,
                                  exit_status, status>>
              ELSE /\ Forward("failed", ErrItem(IoError))
                   /\ UNCHANGED <<procVars, driverVars>>
    /\ UNCHANGED <<turnVars, taskVars>>

\* a write to stdin that is raced against the cancellation token
WriteStdin_RacesCancel ==
    /\ pc = "stdin" /\ stream = "live"
    /\ IF cancel = "cancelled"
       THEN /\ Forward("failed", ErrItem(Aborted))
            /\ UNCHANGED <<child_stdin, stderr_task>>
       ELSE /\ child_stdin' = [data |-> exec_args.input, shutdown |-> TRUE]
            /\ stderr_task' = "running"
            /\ Suspend("loop")
    /\ UNCHANGED <<turnVars, driverVars, stderr_buffer, child, proc_status,
                   stdout_open, stdout_pipe, stderr_pipe, written, err_written>>

\* stdin.write_all, stdin.shutdown, then the pipes are taken, capture_stderr
\* is spawned and the read loop is entered.  A write or a shutdown that
\* fails leaves any part of the payload written and the pipe not shut.
WriteStdin ==
    /\ pc = "stdin" /\ stream = "live"
    /\ \E ok \in BOOLEAN :
         IF ok
         THEN /\ child_stdin' = [data |-> exec_args.input, shutdown |-> TRUE]
              /\ stderr_task' = "running"
              /\ Suspend("loop")
         ELSE /\ \E n \in 0..Len(exec_args.input) :
                    child_stdin' = [data |-> SubSeq(exec_args.input, 1, n),
                                    shutdown |-> FALSE]
              /\ Forward("failed", ErrItem(IoError))
              /\ UNCHANGED stderr_task
    /\ UNCHANGED <<turnVars, driverVars, stderr_buffer, child, proc_status,
                   stdout_open, stdout_pipe, stderr_pipe, written, err_written>>

\* a loop that races the cancellation in Phase B as well
Ready_CancelInAnyPhase(branch) ==
    CASE branch = "cancel" -> cancel = "cancelled"
      [] branch = "line" -> stdout_pipe # <<>>
      [] branch = "eof" -> stdout_pipe = <<>> /\ ~stdout_open
      [] branch = "tick" -> PhaseA
      [] OTHER -> FALSE

\* a read that reports end-of-output as soon as the write end is closed,
\* whatever is still buffered
Ready_EofAtClose(branch) ==
    CASE branch = "cancel" -> PhaseA /\ cancel = "cancelled"
      [] branch = "line" -> stdout_pipe # <<>>
      [] branch = "eof" -> ~stdout_open
      [] branch = "tick" -> PhaseA
      [] OTHER -> FALSE

\* The sources the loop waits on.  In Phase A tokio::select! (not biased)
\* takes any branch that is ready; in Phase B only the line read is awaited.
Ready(branch) ==
    CASE branch = "cancel" -> PhaseA /\ cancel = "cancelled"
      [] branch = "line" -> stdout_pipe # <<>>
      [] branch = "eof" -> stdout_pipe = <<>> /\ ~stdout_open
      [] branch = "tick" -> PhaseA
      [] OTHER -> FALSE

\* LoopCancel without child.kill()
LoopCancel_NoKill ==
    /\ pc = "loop" /\ stream = "live"
    /\ Ready("cancel")
    /\ Forward("failed", ErrItem(Aborted))
    /\ UNCHANGED <<turnVars, taskVars, procVars, driverVars>>

\* the cancellation branch: child.kill().await, then Err(Aborted)
LoopCancel ==
    /\ pc = "loop" /\ stream = "live"
    /\ Ready("cancel")
    /\ killed' = TRUE
    /\ awaited' = TRUE
    /\ child' = "exited"
    /\ proc_status' = IF child = "running" THEN Some(BySignal) ELSE proc_status
    /\ stdout_open' = FALSE
    /\ Forward("failed", ErrItem(Aborted))
    /\ UNCHANGED <<turnVars, taskVars, stdout_pipe, stderr_pipe, written,
                   err_written, child_stdin, spawns, spawned_with, joined,
                   exit_status, status>>

\* lines.next_line() returns Some(line): yield it
LoopLine ==
    /\ pc = "loop" /\ stream = "live"
    /\ Ready("line")
    /\ stdout_pipe' = Tail(stdout_pipe)
    /\ Forward("loop", LineItem(Head(stdout_pipe)))
    /\ UNCHANGED <<turnVars, taskVars, driverVars, child, proc_status,
                   stdout_open, stderr_pipe, written, err_written, child_stdin>>

\* lines.next_line() fails (the bytes read are no UTF-8 text)
LoopReadError ==
    /\ pc = "loop" /\ stream = "live"
    /\ Ready("line")
    /\ Forward("failed", ErrItem(IoError))
    /\ UNCHANGED <<turnVars, taskVars, driverVars, procVars>>

\* lines.next_line() returns None: break.  With an exit status recorded the
\* generator goes on to join the stderr task, otherwise it awaits child.wait()
LoopEof ==
    /\ pc = "loop" /\ stream = "live"
    /\ Ready("eof")
    /\ status' = exit_status
    /\ Suspend(IF IsSome(exit_status) THEN "join" ELSE "wait")
    /\ UNCHANGED <<turnVars, taskVars, procVars, spawns, spawned_with, killed, awaited, joined,
                   exit_status>>

\* poll.tick(): child.try_wait()
LoopTick ==
    /\ pc = "loop" /\ stream = "live"
    /\ Ready("tick")
    /\ \E ok \in BOOLEAN :
         IF ok
         THEN /\ exit_status' = IF child = "exited" THEN proc_status ELSE None
              /\ awaited' = (awaited \/ child = "exited")
              /\ Suspend("loop")
         ELSE /\ Forward("failed", ErrItem(IoError))
              /\ UNCHANGED <<exit_status, awaited>>
    /\ UNCHANGED <<turnVars, taskVars, procVars, spawns, spawned_with, killed, joined, status>>

\* child.wait().await, when the loop ended with no exit status
Wait ==
    /\ pc = "wait" /\ stream = "live"
    /\ child = "exited"
    /\ \E ok \in BOOLEAN :
         IF ok
         THEN /\ status' = proc_status
              /\ awaited' = TRUE
              /\ Suspend("join")
         ELSE /\ Forward("failed", ErrItem(IoError))
              /\ UNCHANGED <<status, awaited>>
    /\ UNCHANGED <<turnVars, taskVars, procVars, spawns, spawned_with, killed, joined,
                   exit_status>>

\* stderr_task.await, then the exit status decides how the stream ends
Join ==
    /\ pc = "join" /\ stream = "live"
    /\ stderr_task = "finished"
    /\ joined' = TRUE
    /\ LET end == ExitOutcome(Unwrap(status), stderr_buffer)
       IN  IF IsSome(end)
           THEN Forward("failed", ErrItem(Unwrap(end)))
           ELSE Forward("finished", EndItem)
    /\ UNCHANGED <<turnVars, taskVars, procVars, spawns, spawned_with, killed, awaited,
                   exit_status, status>>

\* ------------------------------------------------ the consumer of a stream
\* run_streamed's caller polls again after an error item: both generators
\* return and the stream ends
PollAfterError ==
    /\ mode = "streamed" /\ stream = "failed"
    /\ stream' = "ended"
    /\ pc' = "dropped"
    /\ schema_file' = (schema_file /\ SchemaGuardAlive("ended"))
    /\ UNCHANGED <<id, turnVars, procVars, taskVars, driverVars, aggVars,
                   outcome, line_err, yielded, events, started, result>>

\* run_streamed's caller drops the stream before it ended
DropStream ==
    /\ mode = "streamed" /\ stream \in {"live", "failed"}
    /\ stream' = "dropped"
    /\ pc' = "dropped"
    /\ schema_file' = (schema_file /\ SchemaGuardAlive("dropped"))
    /\ UNCHANGED <<id, turnVars, procVars, taskVars, driverVars, aggVars,
                   outcome, line_err, yielded, events, started, result>>

\* ------------------------------------- a concurrent turn on the same Thread
\* A second turn runs on a clone of the Thread, which shares the id cell.
\* Of that turn only its event stream is followed, and of the stream only
\* what touches the cell: each line it takes from its own line stream is
\* parsed, a ThreadStarted stores its id under the lock, and the event is
\* yielded.
PeerStart ==
    /\ peer = "none"
    /\ peer' = "live"
    /\ peer_args' = [NoArgs EXCEPT !.thread_id = id]
    /\ UNCHANGED <<id, mode, output_schema, normalized, exec_args, command, cancel,
                   signaled_at, exec, process_env, input, turn, learned,
                   peer_events, procVars, taskVars, driverVars, streamVars,
                   aggVars>>

PeerForward(line) ==
    /\ peer = "live"
    /\ Len(peer_events) < MaxLines
    /\ LET ev == ParseEvent(line)
       IN  /\ ev.kind # "Invalid"
           /\ id' = SessionIdAfter(id, ev)
           /\ started' = IF ev.kind = "ThreadStarted"
                         THEN Append(started, ev.thread_id) ELSE started
           /\ peer_events' = Append(peer_events, ev)
    /\ UNCHANGED <<mode, output_schema, normalized, exec_args, command, cancel,
                   signaled_at, exec, process_env, input, turn, learned, peer,
                   peer_args, procVars, taskVars, driverVars, aggVars, pc, stream, outcome,
                   line_err, schema_file, yielded, events, result>>

\* the concurrent turn's line stream ends
PeerEnd ==
    /\ peer = "live"
    /\ peer' = "ended"
    /\ UNCHANGED <<id, mode, output_schema, normalized, exec_args, command, cancel,
                   signaled_at, exec, process_env, input, turn, learned,
                   peer_events, peer_args, procVars, taskVars, driverVars, streamVars,
                   aggVars>>

\* Thread::run has returned and the caller calls it again on the same Thread:
\* only the session id cell lives on.  `learned` keeps the id of the last
\* ThreadStarted event the finished turns processed.
NextTurn ==
    /\ turn < MaxTurns
    /\ mode = "run" /\ result # NoResult
    /\ turn' = turn + 1
    /\ learned' = LET starts == SelectSeq(events, LAMBDA e : e.kind = "ThreadStarted")
                  IN  IF starts # <<>> THEN Some(starts[Len(starts)].thread_id)
                      ELSE learned
    /\ started' = <<>>
    /\ normalized' = None
    /\ exec_args' = NoArgs
    /\ command' = None
    /\ signaled_at' = "never"
    /\ schema_file' = FALSE
    /\ line_err' = None
    /\ result' = NoResult
    /\ pc' = "none"
    /\ stream' = "none"
    /\ outcome' = NoOutcome
    /\ child' = "none"
    /\ proc_status' = None
    /\ stdout_open' = FALSE
    /\ stdout_pipe' = <<>>
    /\ stderr_pipe' = <<>>
    /\ written' = <<>>
    /\ err_written' = <<>>
    /\ child_stdin' = NoStdin
    /\ spawns' = 0
    /\ spawned_with' = None
    /\ killed' = FALSE
    /\ awaited' = FALSE
    /\ joined' = FALSE
    /\ stderr_task' = "none"
    /\ stderr_buffer' = <<>>
    /\ exit_status' = None
    /\ status' = None
    /\ yielded' = <<>>
    /\ events' = <<>>
    /\ items' = <<>>
    /\ final_response' = ""
    /\ usage' = None
    /\ turn_failure' = None
    /\ UNCHANGED <<id, mode, output_schema, exec, process_env, input, cancel, peer,
                   peer_events, peer_args>>

\* a caller of build_command (CodexExec::run, or a test)
CallBuildCommand ==
    /\ mode = "build" /\ command = None
    /\ command' = Some(build_command(exec, exec_args, process_env))
    /\ UNCHANGED <<id, mode, output_schema, normalized, exec_args, cancel,
                   signaled_at, callVars, procVars, taskVars, driverVars,
                   streamVars, aggVars>>

\* a caller of normalize_input (run_streamed_internal, or a test)
CallNormalizeInput ==
    /\ mode = "normalize" /\ normalized = None
    /\ normalized' = Some(normalize_input(input))
    /\ UNCHANGED <<id, mode, output_schema, exec_args, command, cancel,
                   signaled_at, callVars, procVars, taskVars, driverVars,
                   streamVars, aggVars>>

\* --------------------------------------------------- the external process
\* The process and the stderr task are followed while the turn's stream is
\* live; what an orphaned process does afterwards changes nothing below.
ProcWriteStdout(line) ==
    /\ stream = "live"
    /\ child = "running" /\ stdout_open
    /\ Len(written) < MaxLines
    /\ Len(stdout_pipe) < PipeCap
    /\ stdout_pipe' = Append(stdout_pipe, line)
    /\ written' = Append(written, line)
    /\ UNCHANGED <<id, turnVars, taskVars, driverVars, streamVars, aggVars,
                   child, proc_status, stdout_open, stderr_pipe, err_written,
                   child_stdin>>

ProcWriteStderr(line) ==
    /\ stream = "live"
    /\ child = "running"
    /\ Len(err_written) < MaxErrLines
    /\ Len(stderr_pipe) < PipeCap
    /\ stderr_pipe' = Append(stderr_pipe, line)
    /\ err_written' = Append(err_written, line)
    /\ UNCHANGED <<id, turnVars, taskVars, driverVars, streamVars, aggVars,
                   child, proc_status, stdout_open, stdout_pipe, written,
                   child_stdin>>

ProcCloseStdout ==
    /\ stream = "live"
    /\ child = "running" /\ stdout_open
    /\ stdout_open' = FALSE
    /\ UNCHANGED <<id, turnVars, taskVars, driverVars, streamVars, aggVars,
                   child, proc_status, stdout_pipe, stderr_pipe, written,
                   err_written, child_stdin>>

ProcExit(st) ==
    /\ stream = "live"
    /\ child = "running"
    /\ child' = "exited"
    /\ proc_status' = Some(st)
    /\ stdout_open' = FALSE
    /\ UNCHANGED <<id, turnVars, taskVars, driverVars, streamVars, aggVars,
                   stdout_pipe, stderr_pipe, written, err_written, child_stdin>>

\* A process that writes more diagnostic lines than the pipe holds, in any
\* interleaving with its stdout lines, and exits only when it has written
\* them all: a write blocks while its pipe is full.
DiagnosticLines == PipeCap + 1

ProcWriteDiagnostics(line) ==
    /\ stream = "live"
    /\ child = "running"
    /\ Len(err_written) < DiagnosticLines
    /\ Len(stderr_pipe) < PipeCap
    /\ stderr_pipe' = Append(stderr_pipe, line)
    /\ err_written' = Append(err_written, line)
    /\ UNCHANGED <<id, turnVars, taskVars, driverVars, streamVars, aggVars,
                   child, proc_status, stdout_open, stdout_pipe, written,
                   child_stdin>>

ProcExitDone(st) ==
    /\ Len(written) = MaxLines
    /\ Len(err_written) = DiagnosticLines
    /\ ProcExit(st)

\* ------------------------------------------------- the capture_stderr task
\* a reader that is run only once the read loop has ended
StderrRead_AfterLoop ==
    /\ stream = "live"
    /\ pc = "join"
    /\ stderr_task = "running"
    /\ stderr_pipe # <<>>
    /\ stderr_buffer' = Append(stderr_buffer, Head(stderr_pipe))
    /\ stderr_pipe' = Tail(stderr_pipe)
    /\ UNCHANGED <<id, turnVars, driverVars, streamVars, aggVars, stderr_task,
                   child, proc_status, stdout_open, stdout_pipe, written,
                   err_written, child_stdin>>

\* reader.read_line returns a line: append it to the buffer
StderrRead ==
    /\ stream = "live"
    /\ stderr_task = "running"
    /\ stderr_pipe # <<>>
    /\ stderr_buffer' = Append(stderr_buffer, Head(stderr_pipe))
    /\ stderr_pipe' = Tail(stderr_pipe)
    /\ UNCHANGED <<id, turnVars, driverVars, streamVars, aggVars, stderr_task,
                   child, proc_status, stdout_open, stdout_pipe, written,
                   err_written, child_stdin>>

\* reader.read_line returns 0: the task ends with its buffer
StderrEof ==
    /\ stream = "live"
    /\ stderr_task = "running"
    /\ stderr_pipe = <<>>
    /\ child = "exited"
    /\ stderr_task' = "finished"
    /\ UNCHANGED <<id, turnVars, driverVars, streamVars, aggVars, procVars,
                   stderr_buffer>>

\* ---------------------------------------------------------- specification
\* the steps of the line stream, of the process and of the stderr task
Driver ==
    \/ PollFirst
    \/ WriteStdin
    \/ LoopCancel
    \/ LoopLine
    \/ LoopReadError
    \/ LoopEof
    \/ LoopTick
    \/ Wait
    \/ Join

World ==
    \/ Cancel
    \/ \E line \in StderrLines : ProcWriteStderr(line)
    \/ ProcCloseStdout
    \/ \E st \in ExitStatuses : ProcExit(st)
    \/ StderrRead
    \/ StderrEof

\* a turn of Thread::run_streamed, whose caller may stop polling at any time
Init == InitWith({"streamed"}, {"none", "object", "scalar"})

Next ==
    \/ StartTurn
    \/ Driver
    \/ World
    \/ \E line \in StdoutLines : ProcWriteStdout(line)
    \/ PollAfterError
    \/ DropStream

Spec == Init /\ [][Next]_vars

\* a turn of Thread::run
InitRun == InitWith({"run"}, {"none"})

NextRun ==
    \/ StartTurn
    \/ Driver
    \/ World
    \/ \E line \in RunLines : ProcWriteStdout(line)

SpecRun == InitRun /\ [][NextRun]_vars

\* turns of Thread::run one after the other on one Thread, without
\* cancellation and with a process that writes nothing to stderr
InitTurns == InitWith({"run"}, {"none"}) /\ cancel = "none"

NextTurns ==
    \/ StartTurn
    \/ PollFirst
    \/ WriteStdin
    \/ LoopLine
    \/ LoopReadError
    \/ LoopEof
    \/ LoopTick
    \/ Wait
    \/ Join
    \/ \E line \in TurnLines : ProcWriteStdout(line)
    \/ ProcCloseStdout
    \/ \E st \in ExitStatuses : ProcExit(st)
    \/ StderrEof
    \/ NextTurn

SpecTurns == InitTurns /\ [][NextTurns]_vars

\* a turn of Thread::run whose process writes events of every kind that
\* Thread::run only observes, without cancellation
InitRunEvents == InitWith({"run"}, {"none"}) /\ cancel = "none"

NextRunEvents ==
    \/ StartTurn
    \/ PollFirst
    \/ WriteStdin
    \/ LoopLine
    \/ LoopReadError
    \/ LoopEof
    \/ LoopTick
    \/ Wait
    \/ Join
    \/ \E line \in EventLines : ProcWriteStdout(line)
    \/ \E line \in StderrLines : ProcWriteStderr(line)
    \/ ProcCloseStdout
    \/ \E st \in ExitStatuses : ProcExit(st)
    \/ StderrRead
    \/ StderrEof

SpecRunEvents == InitRunEvents /\ [][NextRunEvents]_vars

\* A turn of Thread::run_streamed on the process that writes more
\* diagnostics than its pipe holds.  The caller keeps polling, the runtime
\* runs the stderr task, the timer keeps ticking and the process runs
\* whenever it is not blocked: each of these steps is taken if it stays
\* possible, but no I/O failure is ever owed.
InitDrain == InitWith({"streamed"}, {"none"}) /\ cancel = "none"

ProcDrainWrite ==
    \/ \E line \in TurnLines : ProcWriteStdout(line)
    \/ \E line \in StderrLines : ProcWriteDiagnostics(line)

ProcDrainExit == \E st \in ExitStatuses : ProcExitDone(st)

NextDrain ==
    \/ StartTurn
    \/ PollFirst
    \/ WriteStdin
    \/ LoopLine
    \/ LoopReadError
    \/ LoopEof
    \/ LoopTick
    \/ Wait
    \/ Join
    \/ ProcDrainWrite
    \/ ProcDrainExit
    \/ StderrRead
    \/ StderrEof

\* a step of the driver that ends in no I/O error: fairness is owed to the
\* scheduling, not to failures
NoIoError == line_err' = line_err

FairDrain ==
    /\ WF_vars(StartTurn)
    /\ WF_vars(PollFirst /\ NoIoError)
    /\ WF_vars(WriteStdin /\ NoIoError)
    /\ WF_vars(LoopLine)
    /\ WF_vars(LoopEof)
    /\ WF_vars(LoopTick /\ NoIoError)
    /\ WF_vars(Wait /\ NoIoError)
    /\ WF_vars(Join)
    /\ WF_vars(ProcDrainWrite)
    /\ WF_vars(ProcDrainExit)
    /\ WF_vars(StderrRead)
    /\ WF_vars(StderrEof)

SpecDrain == InitDrain /\ [][NextDrain]_vars /\ FairDrain

\* two turns of Thread::run_streamed at the same time on one Thread, both
\* polled to their end, without cancellation
InitPair == InitWith({"streamed"}, {"none"}) /\ cancel = "none"

NextPair ==
    \/ StartTurn
    \/ PollFirst
    \/ WriteStdin
    \/ LoopLine
    \/ LoopEof
    \/ LoopTick
    \/ Wait
    \/ Join
    \/ \E line \in TurnLines : ProcWriteStdout(line)
    \/ \E st \in ExitStatuses : ProcExit(st)
    \/ StderrEof
    \/ PollAfterError
    \/ PeerStart
    \/ \E line \in TurnLines : PeerForward(line)
    \/ PeerEnd

SpecPair == InitPair /\ [][NextPair]_vars

\* build_command on a CodexExec with any configuration tree
InitBuild(execs, requests) ==
    /\ id = None
    /\ mode = "build"
    /\ output_schema = "none"
    /\ exec \in execs
    /\ process_env = InheritedEnv
    /\ input = TextInput("hi")
    /\ cancel = "none"
    /\ turn = 1
    /\ learned = None
    /\ Idle
    /\ exec_args \in requests

InitConfig ==
    InitBuild({CodexExec(Some(tree), None) : tree \in ConfigTrees(MaxNodes)},
              {NoArgs})

NextBuild == CallBuildCommand

SpecConfig == InitConfig /\ [][NextBuild]_vars

\* build_command for any request
InitArgs ==
    InitBuild({CodexExec(config, None) : config \in RequestConfigs}, RequestArgs)

SpecArgs == InitArgs /\ [][NextBuild]_vars

\* build_command on any base mapping: an explicit environment override, or
\* none and the inherited environment
InitEnv ==
    /\ id = None
    /\ mode = "build"
    /\ output_schema = "none"
    /\ input = TextInput("hi")
    /\ \E base \in BaseEnvs :
          \/ exec = CodexExec(None, Some(base)) /\ process_env = InheritedEnv
          \/ exec = CodexExec(None, None) /\ process_env = base
    /\ cancel = "none"
    /\ turn = 1
    /\ learned = None
    /\ Idle
    /\ exec_args \in EnvArgs

SpecEnv == InitEnv /\ [][NextBuild]_vars

\* normalize_input on any input
InitInput ==
    /\ id = None
    /\ mode = "normalize"
    /\ output_schema = "none"
    /\ exec = CodexExec(None, None)
    /\ process_env = InheritedEnv
    /\ input \in Inputs
    /\ cancel = "none"
    /\ turn = 1
    /\ learned = None
    /\ exec_args = NoArgs
    /\ Idle

NextInput == CallNormalizeInput

SpecInput == InitInput /\ [][NextInput]_vars

\* =================================================================== claims
\* what the event stream handed out, read back from its history
ErrOutcome(e) == [kind |-> "err", err |-> e]
ErrResult(e) == [kind |-> "Err", err |-> e]
CompletedEvents == SelectSeq(events, LAMBDA e : e.kind = "ItemCompleted")
AgentMessages ==
    SelectSeq(events, LAMBDA e : e.kind = "ItemCompleted"
                                  /\ e.item_type = "agent_message")
TurnCompletions == SelectSeq(events, LAMBDA e : e.kind = "TurnCompleted")
ThreadStarts == SelectSeq(events, LAMBDA e : e.kind = "ThreadStarted")

\* C1: in aggregated mode, once a TurnFailed event has been reached the call
\* has returned the TurnFailed error with that event's message; it is the
\* last event consumed, and no Turn (so none of the items collected before
\* it) is returned.
C1_TurnFailedNoPartialTurn ==
    \A i \in DOMAIN events :
        events[i].kind = "TurnFailed" =>
            /\ i = Len(events)
            /\ result = ErrResult([error |-> "TurnFailed",
                                   message |-> events[i].message])

C1_Witness ==
    /\ mode = "run"
    /\ Len(events) = 2
    /\ events[1].kind = "ItemCompleted"
    /\ events[2].kind = "TurnFailed"
    /\ items # <<>>
    /\ result.kind = "Err"

\* C2: in aggregated mode, when the event stream ends without an error and
\* without TurnFailed, a Turn is returned whose items are exactly the items
\* of the ItemCompleted events in arrival order and whose usage is the usage
\* of the (last) TurnCompleted event, absent when there was none.
C2_TurnItemsAndUsage ==
    /\ outcome.kind = "end" => result.kind = "Turn"
    /\ result.kind = "Turn" =>
        /\ outcome.kind = "end"
        /\ Len(result.items) = Len(CompletedEvents)
        /\ \A i \in DOMAIN CompletedEvents :
              result.items[i] = [type |-> CompletedEvents[i].item_type,
                                 text |-> CompletedEvents[i].text]
        /\ result.usage = IF TurnCompletions = <<>> THEN None
                          ELSE TurnCompletions[Len(TurnCompletions)].usage

C2_Witness ==
    /\ result.kind = "Turn"
    /\ Len(result.items) = 2
    /\ result.items[1] # result.items[2]

\* C3: in aggregated mode the running final response, and so the Turn's
\* final_response, is the text of the last ItemCompleted event that carries
\* an agent message (empty when there is none); no other event changes it.
C3_FinalResponseLastAgentMessage ==
    LET expected == IF AgentMessages = <<>> THEN ""
                    ELSE AgentMessages[Len(AgentMessages)].text
    IN  /\ final_response = expected
        /\ result.kind = "Turn" => result.final_response = expected

C3_Witness ==
    /\ result.kind = "Turn"
    /\ Len(events) = 2
    /\ events[1].kind = "ItemCompleted" /\ events[1].item_type = "agent_message"
    /\ events[2].kind \in {"ItemCompleted", "ItemStarted"}
    /\ events[2].text # events[1].text
    /\ result.final_response = events[1].text

\* C4: after the event stream has processed a ThreadStarted event the session
\* id is that event's id, whatever it was before; until the first one it is
\* the id the Thread was created with.
C4_SessionIdOverwritten ==
    /\ ThreadStarts # <<>> =>
          id = Some(ThreadStarts[Len(ThreadStarts)].thread_id)
    /\ (ThreadStarts = <<>> /\ stream # "none") => id = exec_args.thread_id

C4_Witness ==
    /\ exec_args.thread_id = Some("r")
    /\ Len(events) = 2
    /\ events[1].kind = "ThreadStarted" /\ events[1].thread_id = "a"
    /\ events[2].kind = "ThreadStarted" /\ events[2].thread_id = "b"
    /\ id = Some("b")

\* C5: when the token was signalled before the line stream was first polled,
\* no process is ever spawned and no line is ever yielded, and the stream,
\* once polled, has failed with Aborted.
C5_AbortedBeforeSpawn ==
    signaled_at = "unpolled" =>
        /\ spawns = 0 /\ child = "none"
        /\ yielded = <<>> /\ events = <<>>
        /\ \/ pc = "unpolled"
           \/ stream = "dropped" /\ outcome = NoOutcome
           \/ outcome = ErrOutcome([error |-> "Aborted"])

C5_Witness ==
    /\ signaled_at = "unpolled"
    /\ outcome = ErrOutcome([error |-> "Aborted"])
    /\ spawns = 0

\* C6 as stated: once the token is signalled while the read loop is in
\* Phase A, no further line is yielded.
C6_NoLineAfterSignal ==
    [][signaled_at = "phase A" => yielded' = yielded]_vars

\* C6 as amended: when the read loop takes its cancellation branch the
\* process is killed and the stream fails with Aborted, and after that
\* failure no line is yielded; the kill happens on no other path.
C6_AbortKillsAndStops ==
    /\ [](killed => /\ child = "exited"
                    /\ cancel = "cancelled"
                    /\ outcome = ErrOutcome([error |-> "Aborted"]))
    /\ []((outcome = ErrOutcome([error |-> "Aborted"]) /\ spawns > 0) => killed)
    /\ [][outcome = ErrOutcome([error |-> "Aborted"]) => yielded' = yielded]_vars

C6_Witness ==
    /\ signaled_at = "phase A"
    /\ killed
    /\ outcome = ErrOutcome([error |-> "Aborted"])
    /\ yielded # <<>>

\* C7: once a line stream that spawned a process is over, the child process
\* has been killed or awaited.
C7_ChildKilledOrAwaited ==
    (spawns > 0 /\ stream \in {"ended", "dropped"}) => (killed \/ awaited)

\* C8: when the read loop has finished and the exit status is known, every
\* line the process wrote to stdout has been yielded; the stream then ends
\* without error after a clean exit and fails with ExecFailed otherwise,
\* carrying "code <n>" or "signal" and the text captured from stderr.
C8_ExitStatusDecides ==
    (IsSome(status) /\ outcome # NoOutcome) =>
        /\ yielded = written
        /\ outcome =
             CASE status = Some([code |-> Some(0)]) -> [kind |-> "end"]
               [] status = Some([code |-> None]) ->
                    ErrOutcome([error |-> "ExecFailed",
                                detail |-> [text |-> "signal"],
                                stderr |-> err_written])
               [] OTHER ->
                    ErrOutcome([error |-> "ExecFailed",
                                detail |-> [text |-> "code",
                                            code |-> status[1].code[1]],
                                stderr |-> err_written])

C8_Witness ==
    /\ IsSome(status)
    /\ outcome.kind = "err"
    /\ outcome.err.error = "ExecFailed"
    /\ outcome.err.stderr # <<>>
    /\ Len(yielded) = 2

\* C9: a yielded line that is no event of the closed schema fails the event
\* stream with InvalidEvent carrying that very line: it is the last line
\* taken from the line stream, every line before it was delivered as an
\* event and nothing is delivered after it.
C9_InvalidEventFailsStream ==
    \A i \in DOMAIN yielded :
        (\/ ~yielded[i].json
         \/ yielded[i].type \notin
               {"thread.started", "turn.started", "turn.completed", "turn.failed",
                "item.started", "item.updated", "item.completed", "error"}) =>
            /\ i = Len(yielded)
            /\ Len(events) = i - 1
            /\ outcome = ErrOutcome([error |-> "InvalidEvent", line |-> yielded[i]])

C9_Witness ==
    /\ Len(yielded) = 2
    /\ yielded[2] \in {UnknownTagLine, BlankLine}
    /\ Len(events) = 1
    /\ outcome.kind = "err"
    /\ outcome.err.error = "InvalidEvent"

\* C10: with an output schema supplied, the schema artifact exists exactly
\* while the turn's event stream exists and has not ended: from the start
\* of the turn, through an error item, until the stream returns its end or
\* is dropped.  Without a schema there is no artifact.
C10_SchemaArtifactLifetime ==
    schema_file <=> (output_schema = "object" /\ stream \in {"live", "failed"})

C10_Witness ==
    /\ output_schema = "object"
    /\ stream = "dropped"
    /\ spawns > 0
    /\ ~schema_file

\* C11: a turn spawns at most one process, and once the turn has failed
\* (spawn error, I/O error, InvalidEvent, ExecFailed, Aborted, TurnFailed) no
\* further process is spawned: nothing retries.
C11_OneProcessNoRetry ==
    /\ [](spawns <= 1)
    /\ [][(result.kind = "Err" \/ outcome.kind = "err") => spawns' = spawns]_vars

C11_Witness ==
    /\ result = ErrResult(TurnFailedError("boom"))
    /\ spawns = 1
    /\ child = "running"

\* C12: an error of the line stream reaches the event stream's consumer as
\* it is, and an InvalidEvent carries the line that failed to parse; in
\* aggregated mode the error the event stream yielded is what Thread::run
\* returns, and no Turn is returned, whatever was collected before.
C12_ErrorsPropagateUnchanged ==
    /\ IsSome(line_err) => outcome = ErrOutcome(Unwrap(line_err))
    /\ outcome.kind = "err" =>
          /\ result = ErrResult(outcome.err)
          /\ \/ line_err = Some(outcome.err)
             \/ /\ line_err = None
                /\ yielded # <<>>
                /\ outcome.err = InvalidEventError(yielded[Len(yielded)])
    /\ result.kind = "Turn" => outcome.kind = "end"

C12_Witness ==
    /\ outcome.kind = "err"
    /\ outcome.err.error = "ExecFailed"
    /\ result = ErrResult(outcome.err)
    /\ items # <<>>
    /\ IsSome(usage)

\* the kinds of event Thread::run matches with `_ => {}`
ObservedKinds == {"TurnStarted", "ItemStarted", "ItemUpdated", "ThreadErrorEvent"}

\* C24: in aggregated mode, the step that processes a TurnStarted,
\* ItemStarted, ItemUpdated or error-notification event leaves the item list,
\* the final response, the usage and the failure state as they were, and
\* the call neither returns nor drops the stream: consumption goes on.
C24_ObservedEventsChangeNothing ==
    [][(/\ mode = "run"
        /\ Len(events') = Len(events) + 1
        /\ events'[Len(events')].kind \in ObservedKinds) =>
            /\ items' = items
            /\ final_response' = final_response
            /\ usage' = usage
            /\ turn_failure' = turn_failure
            /\ turn_failure' = None
            /\ result' = NoResult
            /\ stream' = "live"]_vars

C24_Witness ==
    /\ mode = "run"
    /\ Len(events) = 2
    /\ events[1].kind = "ItemCompleted"
    /\ events[2].kind = "ThreadErrorEvent"
    /\ items = <<[type |-> "agent_message", text |-> "hello"]>>
    /\ final_response = "hello"
    /\ result = NoResult
    /\ stream = "live"

\* the line stream has yielded its last item: its end, or an error
LineStreamOver == pc \in {"failed", "finished"}

\* C25: once the capture_stderr task has been started and the line stream
\* is over (clean exit, non-success exit, cancellation, read error), the task
\* has been joined.
C25_StderrReaderJoined ==
    (stderr_task # "none" /\ LineStreamOver) => joined

\* the token was first signalled after an exit status had been recorded, or
\* after end-of-output had been read
SignaledLate == signaled_at \in {"phase B", "wait", "join"}
\* what the exit status alone makes of the stream
OutcomeOfStatus ==
    IF status = Some([code |-> Some(0)]) THEN [kind |-> "end"]
    ELSE ErrOutcome([error |-> "ExecFailed",
                     detail |-> IF status = Some([code |-> None])
                                THEN [text |-> "signal"]
                                ELSE [text |-> "code", code |-> status[1].code[1]],
                     stderr |-> err_written])

\* C26: a stream fails with Aborted only when the token was signalled
\* before the spawn or up to Phase A.  When it was first signalled after an
\* exit status had been recorded or after end-of-output had been read, the
\* process is never killed and the stream never fails with Aborted; once
\* the exit status is known and the line stream is over, its outcome is
\* what the exit status alone makes it.
C26_LateCancelIgnored ==
    /\ outcome = ErrOutcome([error |-> "Aborted"]) =>
          signaled_at \in {"unpolled", "stdin", "phase A"}
    /\ SignaledLate =>
          /\ ~killed
          /\ outcome # ErrOutcome([error |-> "Aborted"])
          /\ (IsSome(status) /\ LineStreamOver) => outcome = OutcomeOfStatus

C26_Witness ==
    /\ signaled_at = "phase B"
    /\ cancel = "cancelled"
    /\ yielded # <<>>
    /\ status = Some([code |-> Some(1)])
    /\ outcome.kind = "err"
    /\ outcome.err.error = "ExecFailed"
    /\ ~killed

\* C27: what was yielded and what is still buffered make up, in order, what
\* the process wrote, so that each line is yielded at most once and in
\* written order; when the loop has ended and the exit status is known (no
\* cancellation, no I/O error), every written line has been yielded, also
\* those that were buffered when a tick recorded the exit.  The exit status
\* is recorded at most once, and a loop that ended without one waits for the
\* process: the status is then the one the process exited with.
C27_AllLinesYieldedOnce ==
    /\ [](yielded \o stdout_pipe = written)
    /\ []((IsSome(exit_status) /\ pc = "loop") => ~stdout_open)
    /\ []((IsSome(status) /\ pc \in {"join", "failed", "finished"}) =>
            /\ yielded = written
            /\ stdout_pipe = <<>>)
    /\ [][IsSome(exit_status) => exit_status' = exit_status]_vars
    /\ [](pc = "wait" => (exit_status = None /\ status = None))
    /\ [](pc = "join" =>
            /\ IsSome(status)
            /\ awaited /\ child = "exited" /\ status = proc_status
            /\ IsSome(exit_status) => status = exit_status)

C27_Witness ==
    /\ pc = "loop" /\ stream = "live"
    /\ IsSome(exit_status)
    /\ Len(written) = 2
    /\ Len(yielded) = 1
    /\ Len(stdout_pipe) = 1
    /\ cancel # "cancelled"

C29_SessionIdLastStarted ==
    /\ [][started' = started => id' = id]_vars
    /\ [](started # <<>> => id = Some(started[Len(started)]))
    /\ []((started = <<>> /\ stream # "none") => id = exec_args.thread_id)

C29_Witness ==
    /\ stream = "ended" /\ peer = "ended"
    /\ Len(events) = 2 /\ Len(peer_events) = 2
    /\ events[2].kind = "ThreadStarted" /\ events[2].thread_id = "a"
    /\ peer_events[1].kind = "ThreadStarted" /\ peer_events[1].thread_id = "b"
    /\ peer_events[2].kind = "ThreadStarted" /\ peer_events[2].thread_id = "b"
    /\ started = <<"b", "a", "b">>
    /\ id = Some("b")

\* the ways a turn that has processed events can fail
TurnFailures == {"TurnFailed", "InvalidEvent", "ExecFailed", "Aborted"}

\* C30: when a turn that processed a ThreadStarted event ends in TurnFailed,
\* InvalidEvent, ExecFailed or Aborted, the session id is still the id of
\* the last ThreadStarted event it processed, not the value the turn
\* started with; and nothing changes the id once the call has failed.
C30_FailedTurnKeepsSessionId ==
    /\ []((/\ ThreadStarts # <<>>
           /\ result.kind = "Err"
           /\ result.err.error \in TurnFailures) =>
             /\ id = Some(ThreadStarts[Len(ThreadStarts)].thread_id)
             /\ id # exec_args.thread_id)
    /\ [][result.kind = "Err" => id' = id]_vars

C30_Witness ==
    /\ exec_args.thread_id = Some("r")
    /\ Len(events) = 2
    /\ events[1].kind = "ThreadStarted"
    /\ events[2].kind = "TurnFailed"
    /\ result = ErrResult(TurnFailedError("boom"))
    /\ id = Some("a")

\* the argument vector of the turn's command
TurnCommandArgs == Unwrap(command).args
\* the tokens `resume x` stand next to each other in the vector
HasResume(a, x) == \E i \in 1..(Len(a) - 1) : a[i] = "resume" /\ a[i + 1] = x
HasToken(a, tok) == \E i \in 1..Len(a) : a[i] = tok

\* C13: a turn started after earlier turns on the Thread processed
\* ThreadStarted events runs with the id of the last of them as its thread
\* id, and its argument vector holds `resume id`; a turn started while the
\* session id is absent has no thread id and no `resume` token.
C13_LaterTurnResumes ==
    /\ (stream # "none" /\ IsSome(learned)) =>
          /\ exec_args.thread_id = learned
          /\ HasResume(TurnCommandArgs, Unwrap(learned))
    /\ (stream # "none" /\ id = None) =>
          /\ exec_args.thread_id = None
          /\ ~HasToken(TurnCommandArgs, "resume")

C13_Witness ==
    /\ turn = 2
    /\ learned = Some("b")
    /\ spawns = 1
    /\ TurnCommandArgs = <<"exec", "--experimental-json", "resume", "b">>

\* ------------------------------------------------ claims about build_command
\* the configuration tree and what build_command returned for it
Config == Unwrap(exec.config_overrides)
Built == IsSome(command)
Out == Unwrap(command)
BuiltFrom(tree) == build_command(CodexExec(Some(tree), None), exec_args, process_env)
ConfigPairs(entries) == <<"exec", "--experimental-json">> \o Repeated("--config", entries)

RECURSIVE WithoutNullMembers(_)
RECURSIVE HasNullElement(_)
RECURSIVE HasEmptyKey(_)
RECURSIVE EmptyObjectPaths(_, _)

\* The tree without the null members of its objects, at every depth.  An
\* object whose members are all null is left as it is (without them it would
\* be an empty object, which has an entry of its own), and so is a member
\* with the empty key.
WithoutNullMembers(value) ==
    LET Null(kid) == value.t = "obj" /\ kid.v.t = "null" /\ kid.k # ""
        kept == IF \A i \in DOMAIN value.kids : Null(value.kids[i])
                THEN value.kids
                ELSE SelectSeq(value.kids, LAMBDA kid : ~Null(kid))
    IN  [value EXCEPT !.kids = [i \in DOMAIN kept |->
                                  [kept[i] EXCEPT !.v = WithoutNullMembers(@)]]]

\* the token spells a null
MentionsNull(token) ==
    \E i \in 1..(Len(token) - 3) : SubSeq(token, i, i + 3) = "null"

\* some array of the tree has a null element
HasNullElement(value) ==
    \/ value.t = "arr" /\ \E i \in DOMAIN value.kids : value.kids[i].v.t = "null"
    \/ \E i \in DOMAIN value.kids : HasNullElement(value.kids[i].v)

\* some object of the tree has a member with the empty key
HasEmptyKey(value) ==
    \/ value.t = "obj" /\ \E i \in DOMAIN value.kids : value.kids[i].k = ""
    \/ \E i \in DOMAIN value.kids : HasEmptyKey(value.kids[i].v)

\* the dotted paths of the empty objects reached from the root through
\* objects only
EmptyObjectPaths(value, prefix) ==
    IF value.t # "obj" THEN {}
    ELSE IF value.kids = <<>> THEN (IF prefix = "" THEN {} ELSE {prefix})
    ELSE UNION {EmptyObjectPaths(value.kids[i].v,
                                 IF prefix = "" THEN value.kids[i].k
                                 ELSE prefix \o "." \o value.kids[i].k) :
                i \in DOMAIN value.kids}

\* C14 as stated: whatever nulls a tree with an object root and no empty
\* key holds, array elements included, the serialization succeeds and no
\* entry spells a null.
C14_NullPrunedAtAnyDepth ==
    (Built /\ Config.t = "obj" /\ ~HasEmptyKey(Config)) =>
        /\ Out.ok
        /\ \A i \in DOMAIN Out.args : ~MentionsNull(Out.args[i])

\* C14: a null that is a member of an object (at the root, in a nested
\* object, in an object used as a value) leaves no entry and raises no
\* error, and the other members serialize as they do without it.  A null
\* that is an element of an array fails the serialization with
\* InvalidConfigNull.
C14_NullMembersPruned ==
    (Built /\ Config.t = "obj" /\ ~HasEmptyKey(Config)) =>
        /\ Out = BuiltFrom(WithoutNullMembers(Config))
        /\ ~HasNullElement(Config) =>
              /\ Out.ok
              /\ \A i \in DOMAIN Out.args : ~MentionsNull(Out.args[i])
        /\ HasNullElement(Config) =>
              /\ ~Out.ok
              /\ Unwrap(Out.err).error = "InvalidConfigNull"

C14_Witness ==
    /\ Built
    /\ Config = JObject(<<Member("a", JArray(<<Element(JObject(<<Member("a", JNull)>>))>>))>>)
    /\ Out.ok
    /\ Out.args = ConfigPairs(<<"a=[{}]">>)

\* C15: the empty root object serializes to no entry and no error; when the
\* serialization succeeds, every empty object reached from the root through
\* objects yields exactly one entry, `path={}`.
C15_EmptyObjects ==
    Built =>
      /\ Config = JObject(<<>>) => (Out.ok /\ Out.args = ConfigPairs(<<>>))
      /\ Out.ok =>
            \A path \in EmptyObjectPaths(Config, "") :
                Cardinality({i \in DOMAIN Out.args :
                               /\ Out.args[i] = path \o "={}"
                               /\ Out.args[i - 1] = "--config"}) = 1

C15_Witness ==
    /\ Built
    /\ Config = JObject(<<Member("a", JObject(<<Member("web_search", JObject(<<>>))>>)),
                          Member("web_search", JObject(<<>>))>>)
    /\ Out.args = ConfigPairs(<<"a.web_search={}", "web_search={}">>)

\* C16: a root that is no object fails with InvalidConfigRoot; a tree with an
\* empty key at any depth fails, with InvalidConfigKey unless a null array
\* element fails it first; build_command then returns the error and no
\* CommandSpec.
C16_RootAndKeyErrors ==
    Built =>
      /\ Config.t # "obj" => Out = CommandError(Some(InvalidConfigRoot))
      /\ (Config.t = "obj" /\ HasEmptyKey(Config)) =>
            /\ ~Out.ok /\ Out.args = <<>>
            /\ ~HasNullElement(Config) => Out = CommandError(Some(InvalidConfigKey))

C16_Witness ==
    /\ Built
    /\ Config = JObject(<<Member("a", JArray(<<Element(JObject(<<Member("", JNull)>>))>>))>>)
    /\ Out = CommandError(Some(InvalidConfigKey))

RECURSIVE Walk(_, _)
RECURSIVE WalkMembers(_, _, _)

\* The entries the claim describes, by a walk of the tree that carries the
\* keys met from the root: one entry per non-null leaf (scalar or array)
\* reached through objects, `k1.k2...kn=literal`, and `path={}` for an empty
\* object below the root.
Walk(value, keys) ==
    CASE value.t = "null" -> <<>>
      [] value.t = "obj" /\ value.kids # <<>> -> WalkMembers(value.kids, keys, 1)
      [] value.t = "obj" /\ value.kids = <<>> ->
           IF keys = <<>> THEN <<>> ELSE <<JoinStrings(keys, ".") \o "={}">>
      [] OTHER ->
           <<JoinStrings(keys, ".") \o "="
               \o to_toml_value(value, JoinStrings(keys, ".")).text>>
WalkMembers(members, keys, i) ==
    IF i > Len(members) THEN <<>>
    ELSE Walk(members[i].v, Append(keys, members[i].k))
           \o WalkMembers(members, keys, i + 1)

\* C22: when the serializer accepts the tree, every non-null leaf (scalar or
\* array) reached through nested objects with keys k1..kn yields exactly one
\* entry `k1.k2...kn=literal`, in the order the tree is iterated, and the
\* argument vector holds, directly after `exec --experimental-json`, exactly
\* one adjacent `--config entry` pair per entry, in that order.
C22_OneEntryPerLeaf ==
    (Built /\ Out.ok) =>
      LET entries == Walk(Config, <<>>)
      IN  /\ serialize_config_overrides(Config).parts = entries
          /\ Len(Out.args) = 2 + 2 * Len(entries)
          /\ Out.args[1] = "exec" /\ Out.args[2] = "--experimental-json"
          /\ \A i \in DOMAIN entries :
                /\ Out.args[2 * i + 1] = "--config"
                /\ Out.args[2 * i + 2] = entries[i]

C22_Witness ==
    /\ Built
    /\ Config = JObject(<<Member("a", JObject(<<Member("a", JBool(TRUE))>>)),
                          Member("web_search", JArray(<<>>))>>)
    /\ Out.args = <<"exec", "--experimental-json", "--config", "a.a=true",
                    "--config", "web_search=[]">>

\* the argument vector read as a command line would be: after the two
\* leading tokens, flags with their values (`--skip-git-repo-check` has none)
StartsWith(token, prefix) ==
    Len(token) >= Len(prefix) /\ SubSeq(token, 1, Len(prefix)) = prefix

RECURSIVE ParseGroups(_, _)
ParseGroups(a, i) ==
    IF i > Len(a) THEN <<>>
    ELSE IF a[i] = "--skip-git-repo-check"
    THEN <<[flag |-> a[i], value |-> ""]>> \o ParseGroups(a, i + 1)
    ELSE IF i = Len(a) THEN <<[flag |-> a[i], value |-> "<missing>"]>>
    ELSE <<[flag |-> a[i], value |-> a[i + 1]]>> \o ParseGroups(a, i + 2)

\* the entries of the configuration tree, and the groups that follow them
TreeEntries ==
    IF IsSome(exec.config_overrides) THEN serialize_config_overrides(Config).parts
    ELSE <<>>
Groups == ParseGroups(Out.args, 3)
RequestGroups == SubSeq(Groups, Len(TreeEntries) + 1, Len(Groups))

\* the place of a group in the order of the claim; 0 for a group it does
\* not name
Rank(g) ==
    CASE g.flag = "--model" -> 1
      [] g.flag = "--sandbox" -> 2
      [] g.flag = "--cd" -> 3
      [] g.flag = "--add-dir" -> 4
      [] g.flag = "--skip-git-repo-check" -> 5
      [] g.flag = "--output-schema" -> 6
      [] g.flag = "--config" /\ StartsWith(g.value, "model_reasoning_effort=") -> 7
      [] g.flag = "--config"
         /\ StartsWith(g.value, "sandbox_workspace_write.network_access=") -> 8
      [] g.flag = "--config" /\ StartsWith(g.value, "web_search=") -> 9
      [] g.flag = "--config" /\ StartsWith(g.value, "approval_policy=") -> 10
      [] g.flag = "resume" -> 11
      [] g.flag = "--image" -> 12
      [] OTHER -> 0

\* the values of the request's groups of one rank, in the order they stand
ValuesOfRank(groups, r) ==
    LET gs == SelectSeq(groups, LAMBDA g : Rank(g) = r)
    IN  [i \in DOMAIN gs |-> gs[i].value]
OneIfSet(opt) == IF IsSome(opt) THEN <<Unwrap(opt)>> ELSE <<>>
AllIfSet(opt) == IF IsSome(opt) THEN Unwrap(opt) ELSE <<>>

\* C18: the argument vector is `exec --experimental-json`, then the pairs of
\* the configuration tree, then the groups of the request in the fixed
\* order, each present only when its setting is set and carrying its value;
\* the directories and the images keep their insertion order.
C18_TokenOrder ==
    Built =>
      LET request == RequestGroups
          ranks == [i \in DOMAIN request |-> Rank(request[i])]
          Values(r) == ValuesOfRank(request, r)
          a == exec_args
      IN  /\ Out.ok
          /\ SubSeq(Out.args, 1, 2) = <<"exec", "--experimental-json">>
          /\ Len(Groups) >= Len(TreeEntries)
          /\ \A i \in DOMAIN TreeEntries :
                Groups[i] = [flag |-> "--config", value |-> TreeEntries[i]]
          /\ \A i \in DOMAIN request : ranks[i] > 0
          /\ \A i, j \in DOMAIN request :
                i < j =>
                  \/ ranks[i] < ranks[j]
                  \/ ranks[i] = ranks[j] /\ request[i].flag \in {"--add-dir", "--image"}
          /\ Values(1) = OneIfSet(a.model)
          /\ Values(2) = IF IsSome(a.sandbox_mode)
                         THEN <<SandboxModeStr(Unwrap(a.sandbox_mode))>> ELSE <<>>
          /\ Values(3) = OneIfSet(a.working_directory)
          /\ Values(4) = AllIfSet(a.additional_directories)
          /\ Values(5) = IF a.skip_git_repo_check = Some(TRUE) THEN <<"">> ELSE <<>>
          /\ Values(6) = OneIfSet(a.output_schema_file)
          /\ Values(7) = IF IsSome(a.model_reasoning_effort)
                         THEN <<EffortEntry(Unwrap(a.model_reasoning_effort))>>
                         ELSE <<>>
          /\ Values(8) = IF IsSome(a.network_access_enabled)
                         THEN <<NetworkEntry(Unwrap(a.network_access_enabled))>>
                         ELSE <<>>
          /\ Len(Values(9)) = IF IsSome(a.web_search_mode) \/ IsSome(a.web_search_enabled)
                              THEN 1 ELSE 0
          /\ Values(10) = IF IsSome(a.approval_policy)
                          THEN <<ApprovalEntry(Unwrap(a.approval_policy))>> ELSE <<>>
          /\ Values(11) = OneIfSet(a.thread_id)
          /\ Values(12) = AllIfSet(a.images)

C18_Witness ==
    /\ Built
    /\ exec.config_overrides = Some(JObject(<<Member("a", JBool(TRUE))>>))
    /\ Out.args = <<"exec", "--experimental-json", "--config", "a=true",
                    "--model", "gpt", "--sandbox", "read-only", "--cd", "/w",
                    "--add-dir", "d1", "--add-dir", "d2", "--skip-git-repo-check",
                    "--output-schema", "schema.json",
                    "--config", "model_reasoning_effort=\"high\"",
                    "--config", "sandbox_workspace_write.network_access=false",
                    "--config", "web_search=\"cached\"",
                    "--config", "approval_policy=\"on-request\"",
                    "resume", "t", "--image", "i1", "--image", "i2">>

\* C19: with a thread id and at least one image, `resume` and the id stand
\* next to each other before the first `--image`.
C19_ResumeBeforeImages ==
    (/\ Built
     /\ IsSome(exec_args.thread_id)
     /\ IsSome(exec_args.images)
     /\ Unwrap(exec_args.images) # <<>>) =>
        \E i \in 1..(Len(Out.args) - 1) :
            /\ Out.args[i] = "resume"
            /\ Out.args[i + 1] = Unwrap(exec_args.thread_id)
            /\ \E j \in DOMAIN Out.args : Out.args[j] = "--image"
            /\ \A j \in DOMAIN Out.args : Out.args[j] = "--image" => j > i + 1

C19_Witness ==
    /\ Built
    /\ exec_args.thread_id = Some("t")
    /\ exec_args.images = Some(<<"i2", "i1">>)
    /\ exec_args.additional_directories = Some(<<>>)
    /\ exec_args.model = None
    /\ Out.args = <<"exec", "--experimental-json", "resume", "t",
                    "--image", "i2", "--image", "i1">>

\* what the web-search settings of the request resolve to
WebSearchValue ==
    CASE IsSome(exec_args.web_search_mode) ->
           Some(WebSearchModeStr(Unwrap(exec_args.web_search_mode)))
      [] IsSome(exec_args.web_search_enabled) ->
           Some(IF Unwrap(exec_args.web_search_enabled) THEN "live" ELSE "disabled")
      [] OTHER -> None
WebSearchPairs(groups) ==
    SelectSeq(groups, LAMBDA g : g.flag = "--config" /\ StartsWith(g.value, "web_search="))

\* C20 as stated: the whole argument vector holds at most one `web_search=`
\* pair, the one the request's settings resolve to, and none when neither
\* setting is set.
C20_OneWebSearchPair ==
    Built =>
      WebSearchPairs(Groups) =
        IF IsSome(WebSearchValue)
        THEN <<[flag |-> "--config",
                value |-> "web_search=\"" \o Unwrap(WebSearchValue) \o "\""]>>
        ELSE <<>>

\* C20: after the pairs of the configuration tree (which may hold a
\* `web_search` entry of its own) the argument vector holds at most one
\* `web_search=` pair: the explicit mode when one is set, whatever the
\* toggle says; else "live" or "disabled" for the toggle; none when neither
\* is set.
C20_RequestWebSearchPair ==
    Built =>
      WebSearchPairs(RequestGroups) =
        IF IsSome(WebSearchValue)
        THEN <<[flag |-> "--config",
                value |-> "web_search=\"" \o Unwrap(WebSearchValue) \o "\""]>>
        ELSE <<>>

C20_Witness ==
    /\ Built
    /\ exec_args.web_search_mode = Some("Disabled")
    /\ exec_args.web_search_enabled = Some(TRUE)
    /\ WebSearchPairs(RequestGroups) =
         <<[flag |-> "--config", value |-> "web_search=\"disabled\""]>>
    /\ Len(WebSearchPairs(Groups)) = 2

\* ---------------------------------------------------- claims about build_env
\* the base mapping of the call: the override when there is one, else the
\* inherited environment
BaseEnv ==
    IF IsSome(exec.env_override) THEN Unwrap(exec.env_override) ELSE process_env
DefaultedKeys == {INTERNAL_ORIGINATOR_ENV, "CI", "TERM"}
DefaultOf(key) ==
    CASE key = INTERNAL_ORIGINATOR_ENV -> "codex_sdk_rs"
      [] key = "CI" -> "true"
      [] key = "TERM" -> "xterm"
\* the keys the request overrides
OverriddenKeys ==
    (IF IsSome(exec_args.base_url) THEN {"OPENAI_BASE_URL"} ELSE {})
    \cup (IF IsSome(exec_args.api_key) THEN {"CODEX_API_KEY"} ELSE {})

\* C21: in the built environment the originator, CI and TERM keys hold the
\* value of the base mapping when it has one and the default otherwise;
\* OPENAI_BASE_URL and CODEX_API_KEY hold the request's override when there
\* is one, whatever the base mapping says; every other key of the base
\* mapping is passed through unchanged, and no other key is added.
C21_EnvDefaultsAndOverrides ==
    Built =>
      LET env == Out.env
      IN  /\ DOMAIN env = DOMAIN BaseEnv \cup DefaultedKeys \cup OverriddenKeys
          /\ \A key \in DefaultedKeys :
                env[key] = IF key \in DOMAIN BaseEnv THEN BaseEnv[key]
                           ELSE DefaultOf(key)
          /\ IsSome(exec_args.base_url) =>
                env["OPENAI_BASE_URL"] = Unwrap(exec_args.base_url)
          /\ IsSome(exec_args.api_key) =>
                env["CODEX_API_KEY"] = Unwrap(exec_args.api_key)
          /\ \A key \in DOMAIN BaseEnv \ OverriddenKeys : env[key] = BaseEnv[key]

C21_Witness ==
    /\ Built
    /\ DOMAIN BaseEnv = {"CI", "OPENAI_BASE_URL", "CODEX_API_KEY", "PATH"}
    /\ exec_args.base_url = Some("url")
    /\ exec_args.api_key = None
    /\ Out.env["CI"] = "base"
    /\ Out.env["TERM"] = "xterm"
    /\ Out.env["OPENAI_BASE_URL"] = "url"
    /\ Out.env["CODEX_API_KEY"] = "base"

\* ----------------------------------------------- claims about normalize_input
Normalized == IsSome(normalized)
Prompt == Unwrap(normalized).prompt
Images == Unwrap(normalized).images
\* the text segments and the image paths of the structured input, in order
TextSegments ==
    LET segments == SelectSeq(input.items, LAMBDA item : item.kind = "Text")
    IN  [i \in DOMAIN segments |-> segments[i].text]
ImagePaths ==
    LET locals == SelectSeq(input.items, LAMBDA item : item.kind = "LocalImage")
    IN  [i \in DOMAIN locals |-> locals[i].path]
\* how many characters of the prompt stand before segment i
RECURSIVE SegmentStart(_)
SegmentStart(i) ==
    IF i = 1 THEN 0 ELSE SegmentStart(i - 1) + Len(TextSegments[i - 1]) + 2
Occurs(part, text) ==
    \E i \in 1..(Len(text) - Len(part) + 1) :
        SubSeq(text, i, i + Len(part) - 1) = part

\* C23: a plain text input comes back unchanged with no image; for a
\* structured input the prompt is its text segments in order with a blank
\* line ("\n\n") between consecutive segments and nothing else, the images
\* are its image paths in their relative order, and no image path occurs in
\* the prompt.
C23_NormalizeInput ==
    Normalized =>
      /\ input.kind = "Text" => (Prompt = input.text /\ Images = <<>>)
      /\ input.kind = "Structured" =>
            LET n == Len(TextSegments)
            IN  /\ Images = ImagePaths
                /\ Len(Prompt) = IF n = 0 THEN 0
                                 ELSE SegmentStart(n) + Len(TextSegments[n])
                /\ \A i \in 1..n :
                      LET from == SegmentStart(i)
                          to == from + Len(TextSegments[i])
                      IN  /\ SubSeq(Prompt, from + 1, to) = TextSegments[i]
                          /\ i < n => SubSeq(Prompt, to + 1, to + 2) = "\n\n"
                /\ \A i \in DOMAIN Images : ~Occurs(Images[i], Prompt)

C23_Witness ==
    /\ Normalized
    /\ input = StructuredInput(<<UserText("a"), LocalImage("q"), UserText("b"),
                                 LocalImage("p")>>)
    /\ Prompt = "a\n\nb"
    /\ Len(Prompt) = 4
    /\ Images = <<"q", "p">>

\* ----------------------------------------------- claims about the lazy stream
\* the session id an argument vector resumes, if any
ResumeIdOf(a) ==
    IF \E i \in 1..(Len(a) - 1) : a[i] = "resume"
    THEN Some(a[1 + CHOOSE i \in 1..(Len(a) - 1) : a[i] = "resume"])
    ELSE None

\* the step in which run_streamed is called and returns
CallReturns == result = NoResult /\ result' # NoResult

\* C31: the call of run_streamed spawns nothing and leaves the session id as
\* it is: it reads the id into the turn's arguments and its command.  No
\* process exists until the stream is first polled, and the process spawned
\* then resumes the id read at the call, whatever the id has become since:
\* two streams created before either is polled hold the same id.
C31_SpawnAtFirstPollWithIdOfCall ==
    /\ [][CallReturns =>
            /\ spawns' = spawns /\ child' = child /\ id' = id
            /\ exec_args'.thread_id = id
            /\ ResumeIdOf(Unwrap(command').args) = id]_vars
    /\ [](pc \in {"none", "unpolled"} => (spawns = 0 /\ child = "none"))
    /\ [][pc # "none" => exec_args' = exec_args]_vars
    /\ [][spawns' # spawns =>
            /\ pc = "unpolled"
            /\ ResumeIdOf(Unwrap(spawned_with').args) = exec_args.thread_id]_vars
    /\ []((pc = "unpolled" /\ peer = "live" /\ peer_events = <<>>) =>
             peer_args.thread_id = exec_args.thread_id)

C31_Witness ==
    /\ pc = "stdin" /\ spawns = 1 /\ events = <<>>
    /\ exec_args.thread_id = Some("r")
    /\ peer_args.thread_id = Some("r")
    /\ peer_events # <<>>
    /\ id = Some("a")
    /\ ResumeIdOf(Unwrap(spawned_with).args) = Some("r")

\* the whole payload is in the child's stdin and the pipe is shut
PayloadDelivered == child_stdin = [data |-> exec_args.input, shutdown |-> TRUE]

\* C32: the stderr reader runs and a stdout line is read only after the
\* whole payload was written to stdin and stdin was shut.  While the write
\* is under way the stream hands out nothing, so a token signalled during
\* the write aborts the stream only once the payload is delivered and the
\* read loop, with its reader, has started.
C32_StdinBeforeReading ==
    /\ []((stderr_task # "none" \/ yielded # <<>>) => PayloadDelivered)
    /\ [](pc = "stdin" =>
            (stderr_task = "none" /\ yielded = <<>> /\ outcome = NoOutcome))
    /\ []((signaled_at = "stdin" /\ outcome = ErrOutcome(Aborted)) =>
            (PayloadDelivered /\ stderr_task # "none" /\ killed))

C32_Witness ==
    /\ signaled_at = "stdin"
    /\ outcome = ErrOutcome(Aborted)
    /\ PayloadDelivered /\ child_stdin.data = "hi"
    /\ stderr_task = "running"
    /\ killed

\* ------------------------------------------- claims about the end of a turn
\* Thread::run returned the TurnFailed error
TurnFailedReturned == result.kind = "Err" /\ result.err.error = "TurnFailed"

\* C33: in aggregated mode the line that carried the TurnFailed event is the
\* last line read: with it Thread::run has returned the TurnFailed error and
\* dropped the stream, which never came to take the exit status after the
\* loop nor to join the stderr reader.  From then on nothing is read and the
\* result stands, whatever the process has left unread in the pipe and
\* whatever its exit status is.
C33_TurnFailedEndsReading ==
    /\ []((\E i \in DOMAIN events : events[i].kind = "TurnFailed") =>
            /\ TurnFailedReturned
            /\ ParseEvent(yielded[Len(yielded)]).kind = "TurnFailed"
            /\ pc = "dropped"
            /\ status = None /\ ~joined)
    /\ [][TurnFailedReturned =>
            /\ result' = result
            /\ yielded' = yielded /\ stdout_pipe' = stdout_pipe
            /\ awaited' = awaited]_vars

C33_Witness ==
    /\ result = ErrResult(TurnFailedError("boom"))
    /\ stdout_pipe = <<BlankLine>>
    /\ child = "exited" /\ proc_status = Some(ExitCode(1))
    /\ exit_status = None /\ ~awaited

\* the process exited cleanly and its events hold no verdict on the turn
CleanEndWithoutVerdict ==
    /\ outcome.kind = "end"
    /\ TurnCompletions = <<>>
    /\ \A i \in DOMAIN events : events[i].kind # "TurnFailed"

\* C34: when the stream ends after a clean exit and no TurnCompleted and no
\* TurnFailed event was read, Thread::run returns a Turn, not an error: its
\* usage is absent, its items are those of the ItemCompleted events read,
\* in order, and its final_response is empty when none of them was an
\* agent message.
C34_TurnWithoutVerdict ==
    CleanEndWithoutVerdict =>
        /\ Success(Unwrap(status))
        /\ result.kind = "Turn"
        /\ result.usage = None
        /\ result.items = [i \in DOMAIN CompletedEvents |->
                             [type |-> CompletedEvents[i].item_type,
                              text |-> CompletedEvents[i].text]]
        /\ (AgentMessages = <<>> => result.final_response = "")

C34_Witness ==
    /\ CleanEndWithoutVerdict
    /\ Len(events) = 2
    /\ events[1].kind = "ThreadStarted"
    /\ events[2].kind = "ItemCompleted" /\ events[2].item_type = "reasoning"
    /\ result = [kind |-> "Turn",
                 items |-> <<[type |-> "reasoning", text |-> "think"]>>,
                 final_response |-> "", usage |-> None]

====
